---- MODULE Spec2Model ----
(***************************************************************************)
(* A model of the ACG accessibility audit toolkit: sitemap discovery       *)
(* (src/src/crawler/sitemap-crawler.ts), the audit command                 *)
(* (src/src/index.ts: main, runFullAudit, scanPage, the renderers), the    *)
(* lead summary script (src/unnamed/part_005), the lead-package generator  *)
(* (src/unnamed/part_004: main, runScan), the report script                *)
(* (src/unnamed/part_006) and the proposal generator                       *)
(* (src/src/generate-proposal.ts).                                         *)
(*                                                                         *)
(* Strings whose characters the code inspects (URLs) are sequences of      *)
(* one-character strings; strings that are only carried or compared        *)
(* (rule identifiers, severities, messages) are TLA+ strings.              *)
(* The text payload of a violation (description, help, helpUrl, wcagTags)  *)
(* and PageResult.scanTime are carried through unchanged by the code and   *)
(* are left out of the records.                                            *)
(***************************************************************************)
EXTENDS Integers, Sequences, FiniteSets, TLC

VARIABLES
    pc,               \* position of the command that is running
    baseUrl,          \* args[0]: the URL given on the command line
    maxPages,         \* the page cap (--pages, default 10), already >= 1
    sitemapLocations, \* getUrlsFromSitemap: the four locations to probe
    probeIdx,         \* getUrlsFromSitemap: index of the next location (1-based)
    probeLog,         \* the probes made so far: <<[url, resp]>>
    allUrls,          \* getUrlsFromSitemap: let allUrls
    crawlResult,      \* the CrawlResult returned to runFullAudit
    browser,          \* "none" | "open" | "closed"
    i,                \* runFullAudit: the loop index (0-based, as in the code)
    result,           \* runFullAudit: const result of the page being scanned
    allResults,       \* runFullAudit: PageResult[]
    allViolations,    \* runFullAudit: Violation[]
    summary,          \* the AuditSummary returned by runFullAudit
    console,          \* the lead qualification printed by printSummary
    files,            \* the output folder: the files written and their content
    leads,            \* summarize-leads: the grade given to raw-results.json
    pkg,              \* lead-package generator: the state of main and runScan
    events            \* history: the browser and timer calls made so far

vars == <<pc, baseUrl, maxPages, sitemapLocations, probeIdx, probeLog, allUrls,
          crawlResult, browser, i, result, allResults, allViolations, summary,
          console, files, leads, pkg, events>>

----------------------------------------------------------------------------
(* Bounds of the model.                                                    *)

\* the page caps tried are 1..MaxPagesCap
MaxPagesCap == 3
\* a sitemap fetched by SpecCrawl lists at most MaxSitemapLen URLs
MaxSitemapLen == 3
\* SpecGrade draws the critical and the serious count from 0..MaxSeverityCount
MaxSeverityCount == 6
\* SpecRank draws scans that found up to MaxRules distinct rules
MaxRules == 11

----------------------------------------------------------------------------
(* Strings as character sequences.                                         *)

UpperCase == <<"A","B","C","D","E","F","G","H","I","J","K","L","M",
               "N","O","P","Q","R","S","T","U","V","W","X","Y","Z">>
LowerCase == <<"a","b","c","d","e","f","g","h","i","j","k","l","m",
               "n","o","p","q","r","s","t","u","v","w","x","y","z">>

\* String.prototype.toLowerCase, one character
toLowerChar(c) ==
    IF \E k \in 1..26 : UpperCase[k] = c
    THEN LowerCase[CHOOSE k \in 1..26 : UpperCase[k] = c]
    ELSE c

\* String.prototype.toLowerCase
toLowerCase(s) == [k \in 1..Len(s) |-> toLowerChar(s[k])]

\* String.prototype.endsWith
endsWith(s, suffix) ==
    /\ Len(suffix) <= Len(s)
    /\ SubSeq(s, Len(s) - Len(suffix) + 1, Len(s)) = suffix

\* first index k >= from with s[k] = c, or 0
RECURSIVE indexOf(_, _, _)
indexOf(s, c, from) ==
    IF from > Len(s) THEN 0
    ELSE IF s[from] = c THEN from
    ELSE indexOf(s, c, from + 1)

----------------------------------------------------------------------------
(* new URL(x): scheme "://" host [ "/" path ].  The inputs of the model    *)
(* have a lower-case scheme and host, no port, query or fragment.          *)

\* new URL(u) does not throw
isValidUrl(u) ==
    LET c == indexOf(u, ":", 1) IN
    /\ c > 1
    /\ Len(u) >= c + 3
    /\ u[c + 1] = "/"
    /\ u[c + 2] = "/"
    /\ u[c + 3] # "/"

\* url.protocol: up to and including the colon
UrlProtocol(u) == SubSeq(u, 1, indexOf(u, ":", 1))

\* url.host (= url.hostname, no port): between "//" and the next "/"
UrlHost(u) ==
    LET start == indexOf(u, ":", 1) + 3
        slash == indexOf(u, "/", start)
    IN  SubSeq(u, start, IF slash = 0 THEN Len(u) ELSE slash - 1)

----------------------------------------------------------------------------
(* The inputs the model draws from.                                        *)

\* args[0]: a site root, a page of the site, and a string new URL() rejects
UrlRoot == <<"h","t","t","p",":","/","/","a">>
UrlWithPath == <<"h","t","t","p",":","/","/","a","/","x">>
UrlMalformed == <<"a",".","g","o","v">>
WellFormedBaseUrls == {UrlRoot, UrlWithPath}
BaseUrls == WellFormedBaseUrls \cup {UrlMalformed}

\* URLs a sitemap may list: two pages, a document, an image (upper case)
PageA == <<"/","a">>
PageD == <<"/","d">>
DocPdf == <<"/","b",".","p","d","f">>
ImgPNG == <<"/","c",".","P","N","G">>
UrlPool == {PageA, DocPdf, ImgPNG, PageD}

\* all sequences over S of length at most n
SeqUpTo(S, n) == UNION {[1..k -> S] : k \in 0..n}

\* what sitemap.fetch() does at one location: it throws (network error,
\* timeout) or resolves to {sites}, a possibly empty list (sitemapper gives
\* an empty list for a missing or malformed sitemap)
FetchThrows == [kind |-> "throw", sites |-> <<>>]
FetchSites(l) == [kind |-> "sites", sites |-> l]
AllResponses == {FetchThrows} \cup {FetchSites(l) : l \in SeqUpTo(UrlPool, MaxSitemapLen)}

\* the responses the full pipeline (Spec) is run against
PipelineResponses ==
    {FetchThrows, FetchSites(<<>>), FetchSites(<<DocPdf>>),
     FetchSites(<<PageA, ImgPNG, PageD>>)}

----------------------------------------------------------------------------
(* getUrlsFromSitemap (src/src/crawler/sitemap-crawler.ts)                 *)

\* the four paths appended to the domain, in the order of the array literal
SitemapPaths ==
    << <<"/","s","i","t","e","m","a","p",".","x","m","l">>,
       <<"/","s","i","t","e","m","a","p","_","i","n","d","e","x",".","x","m","l">>,
       <<"/","s","i","t","e","m","a","p","/","s","i","t","e","m","a","p",".","x","m","l">>,
       <<"/","w","p","-","s","i","t","e","m","a","p",".","x","m","l">> >>

\* const domain = `${url.protocol}//${url.host}`
DomainOf(u) == UrlProtocol(u) \o <<"/","/">> \o UrlHost(u)

\* const sitemapLocations = [...]
SitemapLocationsOf(u) == [k \in 1..4 |-> DomainOf(u) \o SitemapPaths[k]]

\* the deny-list of the filter callback
DenySuffixes ==
    { <<".","p","d","f">>, <<".","j","p","g">>, <<".","j","p","e","g">>,
      <<".","p","n","g">>, <<".","g","i","f">>, <<".","d","o","c">>,
      <<".","d","o","c","x">>, <<".","x","l","s">>, <<".","x","l","s","x">>,
      <<".","z","i","p">>, <<".","r","a","r">> }

\* the filter without toLowerCase: the suffixes are matched as they are
IsHtmlUrlCaseSensitive(u) ==
    ~ \E suffix \in DenySuffixes : endsWith(u, suffix)

\* the callback of allUrls.filter: true keeps the URL
IsHtmlUrl(u) ==
    LET lower == toLowerCase(u) IN
    ~ \E suffix \in DenySuffixes : endsWith(lower, suffix)

\* const htmlUrls = allUrls.filter(...): Array.prototype.filter keeps the
\* elements the callback accepts, in their order
RECURSIVE HtmlUrls(_)
HtmlUrls(urls) ==
    IF urls = <<>> THEN <<>>
    ELSE IF IsHtmlUrl(Head(urls)) THEN <<Head(urls)>> \o HtmlUrls(Tail(urls))
    ELSE HtmlUrls(Tail(urls))

\* Array.prototype.slice(0, n) for n >= 0
SliceTo(s, n) == SubSeq(s, 1, IF n < Len(s) THEN n ELSE Len(s))

\* the cap applied before the filter
LimitedUrlsCapFirst(urls, cap) == HtmlUrls(SliceTo(urls, cap))

\* const limitedUrls = htmlUrls.slice(0, maxPages)
LimitedUrls(urls, cap) == SliceTo(HtmlUrls(urls), cap)

\* a fallback that returns the cleaned-up domain instead of baseUrl
FallbackResultDomain(u) ==
    [urls |-> <<DomainOf(u)>>, source |-> "fallback", totalFound |-> 1, filtered |-> 1]

\* the fallback CrawlResult (no sitemap found)
FallbackResult(u) ==
    [urls |-> <<u>>, source |-> "fallback", totalFound |-> 1, filtered |-> 1]

\* the CrawlResult built from a sitemap
SitemapResult(urls, cap) ==
    [urls |-> LimitedUrls(urls, cap), source |-> "sitemap",
     totalFound |-> Len(urls), filtered |-> Len(LimitedUrls(urls, cap))]

\* the value of crawlResult before getUrlsFromSitemap has returned
NoCrawlResult == [urls |-> <<>>, source |-> "none", totalFound |-> 0, filtered |-> 0]

----------------------------------------------------------------------------
(* Values shared by the page scan and the aggregation (src/src/index.ts)   *)

\* an optional field that is not set (PageResult.error of a scanned page)
Undefined == "<undefined>"
\* axe-core's impact of a violation may be null
Null == "<null>"

Severities == <<"critical", "serious", "moderate", "minor">>

\* what page.goto() or analyze() may throw: an Error with a message, an
\* Error whose message is empty, or a value that is no Error
ThrownPool ==
    { [isError |-> TRUE, message |-> "Navigation timeout"],
      [isError |-> TRUE, message |-> ""],
      [isError |-> FALSE, message |-> "aborted"] }

\* raw violations axe-core may report: id, impact, nodes (the node count)
RawContrast == [id |-> "color-contrast", impact |-> "serious", nodes |-> 3]
RawImageAlt == [id |-> "image-alt", impact |-> "critical", nodes |-> 1]
RawContrastModerate == [id |-> "color-contrast", impact |-> "moderate", nodes |-> 2]
RawRegion == [id |-> "region", impact |-> Null, nodes |-> 1]
RawLabel == [id |-> "label", impact |-> "minor", nodes |-> 2]

\* what analyze() may resolve to: violations, and the passes and incomplete
\* lists (their lengths)
AxeResultPool ==
    { [violations |-> <<>>, passes |-> 2, incomplete |-> 0],
      [violations |-> <<RawContrast>>, passes |-> 1, incomplete |-> 1],
      [violations |-> <<RawImageAlt, RawContrastModerate>>, passes |-> 1, incomplete |-> 0],
      [violations |-> <<RawRegion, RawLabel>>, passes |-> 0, incomplete |-> 2] }

\* a value in a condition: undefined, null and "" are falsy
Truthy(x) == x \notin {Undefined, Null, ""}

\* one element of results.violations.map(...)
ToViolation(v, url) ==
    [id |-> v.id,
     impact |-> IF Truthy(v.impact) THEN v.impact ELSE "minor",
     nodeCount |-> v.nodes,
     pageUrl |-> url]

\* scanPage's return value after a successful analyze()
ScannedResult(url, axe) ==
    [url |-> url,
     violations |-> [k \in 1..Len(axe.violations) |-> ToViolation(axe.violations[k], url)],
     passes |-> axe.passes,
     incomplete |-> axe.incomplete,
     error |-> Undefined]

\* a catch block that hands back the violations of the page scanned before
FailedResultStale(url, thrown) ==
    [url |-> url,
     violations |-> result.violations,
     passes |-> 0,
     incomplete |-> 0,
     error |-> IF thrown.isError THEN thrown.message ELSE "Unknown error"]

\* scanPage's return value from its catch block
FailedResult(url, thrown) ==
    [url |-> url,
     violations |-> <<>>,
     passes |-> 0,
     incomplete |-> 0,
     error |-> IF thrown.isError THEN thrown.message ELSE "Unknown error"]

\* the value of result before the first page is scanned
NoResult ==
    [url |-> <<>>, violations |-> <<>>, passes |-> 0, incomplete |-> 0,
     error |-> Undefined]

----------------------------------------------------------------------------
(* Step 4 of runFullAudit: compiling the summary                           *)

\* the length of the ranking: .slice(0, 10)
TopN == 10

ZeroSeverity == [critical |-> 0, serious |-> 0, moderate |-> 0, minor |-> 0]

\* the tally counting affected nodes: bySeverity[v.impact] += v.nodeCount
CountSeverityByNodes(bySeverity, v) == [bySeverity EXCEPT ![v.impact] = @ + v.nodeCount]

\* bySeverity[v.impact]++
CountSeverity(bySeverity, v) == [bySeverity EXCEPT ![v.impact] = @ + 1]

\* issueCount is an object whose keys keep their insertion order: a sequence
\* of [rule, count, impact].  if (!issueCount[v.id]) {...}; issueCount[v.id].count++
CountIssue(issueCount, v) ==
    LET started ==
            IF \E k \in 1..Len(issueCount) : issueCount[k].rule = v.id
            THEN issueCount
            ELSE Append(issueCount, [rule |-> v.id, count |-> 0, impact |-> v.impact])
        at == CHOOSE k \in 1..Len(started) : started[k].rule = v.id
    IN  [started EXCEPT ![at].count = @ + 1]

\* allViolations.forEach(v => {...}) from the k-th violation on: the tally.
\* (In both folds the test x = x is always true: it makes TLC compute the
\* value so far before it recurses, which keeps its evaluation stack short.)
RECURSIVE BySeverityFrom(_, _, _)
BySeverityFrom(bySeverity, vs, k) ==
    IF k > Len(vs) THEN bySeverity
    ELSE IF bySeverity = bySeverity
    THEN BySeverityFrom(CountSeverity(bySeverity, vs[k]), vs, k + 1)
    ELSE bySeverity

\* const bySeverity = {critical: 0, ...} after the forEach
BySeverityOf(vs) == BySeverityFrom(ZeroSeverity, vs, 1)

\* allViolations.forEach(v => {...}) from the k-th violation on: issueCount
RECURSIVE IssueCountFrom(_, _, _)
IssueCountFrom(issueCount, vs, k) ==
    IF k > Len(vs) THEN issueCount
    ELSE IF issueCount = issueCount
    THEN IssueCountFrom(CountIssue(issueCount, vs[k]), vs, k + 1)
    ELSE issueCount

\* const issueCount = {} after the forEach
IssueCountOf(vs) == IssueCountFrom(<<>>, vs, 1)

\* .sort((a, b) => b.count - a.count): a stable sort, larger counts first
RECURSIVE SortByCount(_)
SortByCount(issues) ==
    IF issues = <<>> THEN <<>>
    ELSE LET top == CHOOSE k \in 1..Len(issues) :
                        /\ \A j \in 1..Len(issues) : issues[j].count <= issues[k].count
                        /\ \A j \in 1..(k - 1) : issues[j].count < issues[k].count
         IN  <<issues[top]>> \o
             SortByCount(SubSeq(issues, 1, top - 1) \o SubSeq(issues, top + 1, Len(issues)))

\* Object.entries(issueCount).map(...).sort(...): the ranking before .slice
RankedIssues(vs) == SortByCount(IssueCountOf(vs))

\* the ranking cut without the sort: the first ten rules met
TopIssuesUnsorted(vs) == SliceTo(IssueCountOf(vs), TopN)

\* const topIssues = ... .slice(0, 10)
TopIssues(vs) == SliceTo(RankedIssues(vs), TopN)

\* allResults.filter(r => r.error).length
PagesWithErrors(results) == Cardinality({k \in 1..Len(results) : Truthy(results[k].error)})

\* totalViolations: allViolations.length
TotalViolations(vs) == Len(vs)

\* the AuditSummary returned by runFullAudit (scanDate, a timestamp, left out)
CompileSummary(url, crawl, results, vs) ==
    [domain |-> UrlHost(url),
     pagesScanned |-> Len(crawl.urls),
     pagesWithErrors |-> PagesWithErrors(results),
     totalViolations |-> TotalViolations(vs),
     bySeverity |-> BySeverityOf(vs),
     topIssues |-> TopIssues(vs),
     allViolations |-> vs]

\* the value of summary before runFullAudit has returned
NoSummary ==
    [domain |-> <<>>, pagesScanned |-> 0, pagesWithErrors |-> 0,
     totalViolations |-> 0, bySeverity |-> ZeroSeverity, topIssues |-> <<>>,
     allViolations |-> <<>>]

----------------------------------------------------------------------------
(* Lead qualification, in each place that computes it                      *)

\* printSummary with the first threshold strict (> 10 for >= 10)
printSummaryGradeStrict(s) ==
    LET totalIssues == s.totalViolations
        criticalSerious == s.bySeverity.critical + s.bySeverity.serious
    IN  IF criticalSerious > 10 \/ totalIssues >= 25 THEN "A-LEAD"
        ELSE IF criticalSerious >= 5 \/ totalIssues >= 15 THEN "B-LEAD"
        ELSE IF totalIssues > 0 THEN "C-LEAD"
        ELSE "SKIP"

\* the A test with === in place of >=
printSummaryGradeExact(s) ==
    LET totalIssues == s.totalViolations
        criticalSerious == s.bySeverity.critical + s.bySeverity.serious
    IN  IF criticalSerious = 10 \/ totalIssues >= 25 THEN "A-LEAD"
        ELSE IF criticalSerious >= 5 \/ totalIssues >= 15 THEN "B-LEAD"
        ELSE IF totalIssues > 0 THEN "C-LEAD"
        ELSE "SKIP"

\* the total taken from the list of violations: allViolations.length
printSummaryGradeByList(s) ==
    LET totalIssues == Len(s.allViolations)
        criticalSerious == s.bySeverity.critical + s.bySeverity.serious
    IN  IF criticalSerious >= 10 \/ totalIssues >= 25 THEN "A-LEAD"
        ELSE IF criticalSerious >= 5 \/ totalIssues >= 15 THEN "B-LEAD"
        ELSE IF totalIssues > 0 THEN "C-LEAD"
        ELSE "SKIP"

\* printSummary: the line printed under LEAD QUALIFICATION
printSummaryGrade(s) ==
    LET totalIssues == s.totalViolations
        criticalSerious == s.bySeverity.critical + s.bySeverity.serious
    IN  IF criticalSerious >= 10 \/ totalIssues >= 25 THEN "A-LEAD"
        ELSE IF criticalSerious >= 5 \/ totalIssues >= 15 THEN "B-LEAD"
        ELSE IF totalIssues > 0 THEN "C-LEAD"
        ELSE "SKIP"

\* exportSummaryText: the line written under LEAD QUALIFICATION
exportSummaryTextGrade(s) ==
    LET criticalSerious == s.bySeverity.critical + s.bySeverity.serious
    IN  IF criticalSerious >= 10 \/ s.totalViolations >= 25 THEN "A-LEAD"
        ELSE IF criticalSerious >= 5 \/ s.totalViolations >= 15 THEN "B-LEAD"
        ELSE IF s.totalViolations > 0 THEN "C-LEAD"
        ELSE "SKIP"

\* summarize-leads: the list of leads a raw-results.json is pushed to
summarizeLeadsGrade(data) ==
    LET criticalSerious == data.bySeverity.critical + data.bySeverity.serious
        total == data.totalViolations
    IN  IF criticalSerious >= 10 \/ total >= 25 THEN "A"
        ELSE IF criticalSerious >= 5 \/ total >= 15 THEN "B"
        ELSE IF total = 0 THEN "skip"
        ELSE "C"

\* runScan of the lead-package generator: totalViolations is the sum of the
\* four buckets, leadGrade starts at 'C'
runScanLeadGrade(bySeverity) ==
    LET totalViolations == bySeverity.critical + bySeverity.serious
                             + bySeverity.moderate + bySeverity.minor
        criticalSerious == bySeverity.critical + bySeverity.serious
    IN  IF criticalSerious >= 10 \/ totalViolations >= 25 THEN "A"
        ELSE IF criticalSerious >= 5 \/ totalViolations >= 15 THEN "B"
        ELSE "C"

\* v.impact.toUpperCase()
SeverityUpperCase ==
    [critical |-> "CRITICAL", serious |-> "SERIOUS", moderate |-> "MODERATE",
     minor |-> "MINOR"]

\* exportToCSV: one row per violation
CsvRows(s) ==
    [k \in 1..Len(s.allViolations) |->
        [domain |-> s.domain,
         pageUrl |-> s.allViolations[k].pageUrl,
         ruleId |-> s.allViolations[k].id,
         severity |-> SeverityUpperCase[s.allViolations[k].impact],
         instances |-> s.allViolations[k].nodeCount]]

\* the content of accessibility-report.pdf before it is written
NoReport ==
    [domain |-> <<>>, pagesScanned |-> 0, totalViolations |-> 0,
     bySeverity |-> ZeroSeverity, topIssues |-> <<>>]

\* the content of proposal.pdf before it is written
NoProposal ==
    [totalViolations |-> 0, critical |-> 0, serious |-> 0, moderate |-> 0,
     audit |-> 0, remediation |-> 0, pdf |-> 0, training |-> 0,
     monitoring |-> 0, total |-> 0, totalWithMonitoring |-> 0]

\* the output folder with no file in it: written are the names of the files
\* it holds, pending the files piped to a write stream that has not created
\* them yet
NoFiles ==
    [written |-> {}, pending |-> {}, csv |-> <<>>, summaryTxt |-> "",
     rawResults |-> NoSummary, reportPdf |-> NoReport, proposalPdf |-> NoProposal]

----------------------------------------------------------------------------
(* main (src/src/index.ts), after the command line has been parsed         *)

\* try { new URL(url) } catch { process.exit(1) }
ValidateUrl ==
    /\ pc = "main"
    /\ pc' = IF isValidUrl(baseUrl) THEN "crawl" ELSE "exit1"
    /\ UNCHANGED <<baseUrl, maxPages, sitemapLocations, probeIdx, probeLog,
                   allUrls, crawlResult, browser, i, result, allResults,
                   allViolations, summary, console, files, leads, pkg,
                   events>>

\* catch (error) { console.error(...); process.exit(1) }
MainCatch ==
    /\ pc = "raised"
    /\ pc' = "exit1"
    /\ UNCHANGED <<baseUrl, maxPages, sitemapLocations, probeIdx, probeLog,
                   allUrls, crawlResult, browser, i, result, allResults,
                   allViolations, summary, console, files, leads, pkg,
                   events>>

----------------------------------------------------------------------------
(* getUrlsFromSitemap, step by step                                        *)

\* new URL(baseUrl) (it throws on a malformed URL), domain, sitemapLocations,
\* let allUrls = []
CrawlEntry ==
    /\ pc = "crawl"
    /\ IF isValidUrl(baseUrl)
       THEN /\ sitemapLocations' = SitemapLocationsOf(baseUrl)
            /\ pc' = "probe"
       ELSE /\ sitemapLocations' = sitemapLocations
            /\ pc' = "raised"
    /\ allUrls' = <<>>
    /\ probeIdx' = 1
    /\ UNCHANGED <<baseUrl, maxPages, probeLog, crawlResult, browser, i, result,
                   allResults, allViolations, summary, console, files, leads,
                   pkg,
                   events>>

\* if (sites && sites.length > 0)
SitesFound(resp) == resp.kind = "sites" /\ Len(resp.sites) > 0

\* the loop without its break: a found sitemap does not end the probing
ProbeNoBreak(responses) ==
    /\ pc = "probe"
    /\ probeIdx <= Len(sitemapLocations)
    /\ \E resp \in responses :
        /\ probeLog' = Append(probeLog, [url |-> sitemapLocations[probeIdx], resp |-> resp])
        /\ allUrls' = IF SitesFound(resp) THEN resp.sites ELSE allUrls
        /\ probeIdx' = probeIdx + 1
        /\ pc' = IF probeIdx < Len(sitemapLocations) THEN "probe" ELSE "crawl_return"
    /\ UNCHANGED <<baseUrl, maxPages, sitemapLocations, crawlResult, browser, i,
                   result, allResults, allViolations, summary, console, files,
                   leads, pkg,
                   events>>

\* the loop without its try/catch: a throwing fetch ends getUrlsFromSitemap
ProbeRethrow(responses) ==
    /\ pc = "probe"
    /\ probeIdx <= Len(sitemapLocations)
    /\ \E resp \in responses :
        /\ probeLog' = Append(probeLog, [url |-> sitemapLocations[probeIdx], resp |-> resp])
        /\ IF SitesFound(resp)
           THEN /\ allUrls' = resp.sites
                /\ probeIdx' = probeIdx
                /\ pc' = "crawl_return"
           ELSE /\ allUrls' = allUrls
                /\ probeIdx' = probeIdx + 1
                /\ pc' = IF resp.kind = "throw" THEN "raised"
                         ELSE IF probeIdx < Len(sitemapLocations) THEN "probe"
                         ELSE "crawl_return"
    /\ UNCHANGED <<baseUrl, maxPages, sitemapLocations, crawlResult, browser, i,
                   result, allResults, allViolations, summary, console, files,
                   leads, pkg,
                   events>>

\* one iteration of for (const sitemapUrl of sitemapLocations): fetch, then
\* break on a non-empty list, go on to the next location otherwise (an empty
\* list falls out of the try block, a throw reaches continue)
Probe(responses) ==
    /\ pc = "probe"
    /\ probeIdx <= Len(sitemapLocations)
    /\ \E resp \in responses :
        /\ probeLog' = Append(probeLog, [url |-> sitemapLocations[probeIdx], resp |-> resp])
        /\ IF SitesFound(resp)
           THEN /\ allUrls' = resp.sites
                /\ probeIdx' = probeIdx
                /\ pc' = "crawl_return"
           ELSE /\ allUrls' = allUrls
                /\ probeIdx' = probeIdx + 1
                /\ pc' = IF probeIdx < Len(sitemapLocations) THEN "probe" ELSE "crawl_return"
    /\ UNCHANGED <<baseUrl, maxPages, sitemapLocations, crawlResult, browser, i,
                   result, allResults, allViolations, summary, console, files,
                   leads, pkg,
                   events>>

\* a fallback taken after the filter: the root URL when no HTML page is left
CrawlResultOfFallbackWhenFiltered(urls, url, cap) ==
    IF Len(HtmlUrls(urls)) = 0 THEN FallbackResult(url) ELSE SitemapResult(urls, cap)

\* the value getUrlsFromSitemap returns
CrawlResultOf(urls, url, cap) ==
    IF Len(urls) = 0 THEN FallbackResult(url) ELSE SitemapResult(urls, cap)

\* a filter that asks the site about the URL it is given before it returns
CrawlReturnProbing ==
    /\ pc = "crawl_return"
    /\ probeLog' = Append(probeLog, [url |-> baseUrl, resp |-> FetchSites(<<>>)])
    /\ crawlResult' = CrawlResultOf(allUrls, baseUrl, maxPages)
    /\ pc' = "crawled"
    /\ UNCHANGED <<baseUrl, maxPages, sitemapLocations, probeIdx, allUrls,
                   browser, i, result, allResults, allViolations, summary,
                   console, files, leads, pkg, events>>

\* if (allUrls.length === 0) return {fallback}; filter, slice, return
CrawlReturn ==
    /\ pc = "crawl_return"
    /\ crawlResult' = CrawlResultOf(allUrls, baseUrl, maxPages)
    /\ pc' = "crawled"
    /\ UNCHANGED <<baseUrl, maxPages, sitemapLocations, probeIdx, probeLog,
                   allUrls, browser, i, result, allResults, allViolations,
                   summary, console, files, leads, pkg,
                   events>>

----------------------------------------------------------------------------
(* runFullAudit after the crawl, scanPage inlined                          *)

\* the URL of the page being scanned: crawlResult.urls[i]
CurrentUrl == crawlResult.urls[i + 1]

\* scanPage: setTimeout(resolve, 2000) after the navigation
SettleMs == 2000
\* runFullAudit: setTimeout(resolve, 1000) between two pages
PaceMs == 1000

\* one call made by the run: op is the call, page the loop index i at the
\* time of the call, ms the time the call waits by construction
Event(op, page, ms) == [op |-> op, page |-> page, ms |-> ms]

\* const browser = await puppeteer.launch(...): the browser starts, or the
\* call rejects and runFullAudit ends
LaunchBrowser ==
    /\ pc = "crawled"
    /\ events' = Append(events, Event("launch", 0, 0))
    /\ \/ /\ browser' = "open"
          /\ pc' = "launched"
       \/ /\ browser' = browser
          /\ pc' = "raised"
    /\ UNCHANGED <<baseUrl, maxPages, sitemapLocations, probeIdx, probeLog,
                   allUrls, crawlResult, i, result, allResults, allViolations,
                   summary, console, files, leads, pkg>>

\* const page = await browser.newPage(): a rejection leaves the browser open
NewPage ==
    /\ pc = "launched"
    /\ events' = Append(events, Event("newPage", 0, 0))
    /\ \/ pc' = "paged"
       \/ pc' = "raised"
    /\ UNCHANGED <<baseUrl, maxPages, sitemapLocations, probeIdx, probeLog,
                   allUrls, crawlResult, browser, i, result, allResults,
                   allViolations, summary, console, files, leads, pkg>>

\* await page.setViewport(...), then allResults = [], allViolations = [] and
\* let i = 0; a rejection leaves the browser open
SetViewport ==
    /\ pc = "paged"
    /\ events' = Append(events, Event("setViewport", 0, 0))
    /\ \/ /\ i' = 0
          /\ allResults' = <<>>
          /\ allViolations' = <<>>
          /\ pc' = "loop"
       \/ /\ UNCHANGED <<i, allResults, allViolations>>
          /\ pc' = "raised"
    /\ UNCHANGED <<baseUrl, maxPages, sitemapLocations, probeIdx, probeLog,
                   allUrls, crawlResult, browser, result, summary, console,
                   files, leads, pkg>>

\* a scanPage without its try/catch: a throwing navigation ends the run
GotoRethrow ==
    /\ pc = "loop"
    /\ i < Len(crawlResult.urls)
    /\ events' = Append(events, Event("goto", i, 0))
    /\ \/ pc' = "settle"
       \/ pc' = "raised"
    /\ UNCHANGED <<baseUrl, maxPages, sitemapLocations, probeIdx, probeLog,
                   allUrls, crawlResult, browser, i, result, allResults,
                   allViolations, summary, console, files, leads, pkg>>

\* a loop that does not wait for the delay it started: the next navigation
\* begins while the timer of the page before is still running
GotoDuringDelay ==
    /\ \/ /\ pc = "loop"
          /\ i < Len(crawlResult.urls)
          /\ i' = i
       \/ /\ pc = "delay"
          /\ i' = i + 1
    /\ events' = Append(events, Event("goto", i', 0))
    /\ \/ /\ pc' = "settle"
          /\ result' = result
       \/ \E thrown \in ThrownPool :
            /\ result' = FailedResult(crawlResult.urls[i' + 1], thrown)
            /\ pc' = "record"
    /\ UNCHANGED <<baseUrl, maxPages, sitemapLocations, probeIdx, probeLog,
                   allUrls, crawlResult, browser, allResults, allViolations,
                   summary, console, files, leads, pkg>>

\* a scanPage without its settle delay: analyze() right after the navigation
GotoNoSettle ==
    /\ pc = "loop"
    /\ i < Len(crawlResult.urls)
    /\ events' = Append(events, Event("goto", i, 0))
    /\ \/ /\ pc' = "analyze"
          /\ result' = result
       \/ \E thrown \in ThrownPool :
            /\ result' = FailedResult(CurrentUrl, thrown)
            /\ pc' = "record"
    /\ UNCHANGED <<baseUrl, maxPages, sitemapLocations, probeIdx, probeLog,
                   allUrls, crawlResult, browser, i, allResults, allViolations,
                   summary, console, files, leads, pkg>>

\* scanPage: await page.goto(url); a throw goes to the catch block
Goto ==
    /\ pc = "loop"
    /\ i < Len(crawlResult.urls)
    /\ events' = Append(events, Event("goto", i, 0))
    /\ \/ /\ pc' = "settle"
          /\ result' = result
       \/ \E thrown \in ThrownPool :
            /\ result' = FailedResult(CurrentUrl, thrown)
            /\ pc' = "record"
    /\ UNCHANGED <<baseUrl, maxPages, sitemapLocations, probeIdx, probeLog,
                   allUrls, crawlResult, browser, i, allResults, allViolations,
                   summary, console, files, leads, pkg>>

\* scanPage: await new Promise(resolve => setTimeout(resolve, 2000))
Settle ==
    /\ pc = "settle"
    /\ events' = Append(events, Event("settle", i, SettleMs))
    /\ pc' = "analyze"
    /\ UNCHANGED <<baseUrl, maxPages, sitemapLocations, probeIdx, probeLog,
                   allUrls, crawlResult, browser, i, result, allResults,
                   allViolations, summary, console, files, leads, pkg>>

\* scanPage: analyze(), the map over the violations and the return; a throw
\* goes to the catch block
Analyze ==
    /\ pc = "analyze"
    /\ events' = Append(events, Event("analyze", i, 0))
    /\ \/ \E axe \in AxeResultPool : result' = ScannedResult(CurrentUrl, axe)
       \/ \E thrown \in ThrownPool : result' = FailedResult(CurrentUrl, thrown)
    /\ pc' = "record"
    /\ UNCHANGED <<baseUrl, maxPages, sitemapLocations, probeIdx, probeLog,
                   allUrls, crawlResult, browser, i, allResults, allViolations,
                   summary, console, files, leads, pkg>>

\* if (result.error) ... else if (result.violations.length > 0)
\*   allViolations.push(...result.violations)
CollectViolations(vs, r) ==
    IF Truthy(r.error) THEN vs
    ELSE IF Len(r.violations) > 0 THEN vs \o r.violations
    ELSE vs

\* a loop that records only the pages that were scanned
RecordDroppingFailures ==
    /\ pc = "record"
    /\ events' = Append(events, Event("record", i, 0))
    /\ allResults' = IF Truthy(result.error) THEN allResults ELSE Append(allResults, result)
    /\ allViolations' = CollectViolations(allViolations, result)
    /\ IF i < Len(crawlResult.urls) - 1
       THEN /\ pc' = "delay"
            /\ i' = i
       ELSE /\ pc' = "loop"
            /\ i' = i + 1
    /\ UNCHANGED <<baseUrl, maxPages, sitemapLocations, probeIdx, probeLog,
                   allUrls, crawlResult, browser, result, summary, console,
                   files, leads, pkg>>

\* a loop without the delay between two pages
RecordNoDelay ==
    /\ pc = "record"
    /\ events' = Append(events, Event("record", i, 0))
    /\ allResults' = Append(allResults, result)
    /\ allViolations' = CollectViolations(allViolations, result)
    /\ pc' = "loop"
    /\ i' = i + 1
    /\ UNCHANGED <<baseUrl, maxPages, sitemapLocations, probeIdx, probeLog,
                   allUrls, crawlResult, browser, result, summary, console,
                   files, leads, pkg>>

\* allResults.push(result), the violations collected, and the test of
\* if (i < crawlResult.urls.length - 1); without a delay the loop goes on (i++)
Record ==
    /\ pc = "record"
    /\ events' = Append(events, Event("record", i, 0))
    /\ allResults' = Append(allResults, result)
    /\ allViolations' = CollectViolations(allViolations, result)
    /\ IF i < Len(crawlResult.urls) - 1
       THEN /\ pc' = "delay"
            /\ i' = i
       ELSE /\ pc' = "loop"
            /\ i' = i + 1
    /\ UNCHANGED <<baseUrl, maxPages, sitemapLocations, probeIdx, probeLog,
                   allUrls, crawlResult, browser, result, summary, console,
                   files, leads, pkg>>

\* await new Promise(resolve => setTimeout(resolve, 1000)), then i++
Delay ==
    /\ pc = "delay"
    /\ events' = Append(events, Event("delay", i, PaceMs))
    /\ i' = i + 1
    /\ pc' = "loop"
    /\ UNCHANGED <<baseUrl, maxPages, sitemapLocations, probeIdx, probeLog,
                   allUrls, crawlResult, browser, result, allResults,
                   allViolations, summary, console, files, leads, pkg>>

\* a runFullAudit that goes on to Step 4 without closing the browser
CloseBrowserNever ==
    /\ pc = "loop"
    /\ ~ (i < Len(crawlResult.urls))
    /\ pc' = "compile"
    /\ UNCHANGED <<baseUrl, maxPages, sitemapLocations, probeIdx, probeLog,
                   allUrls, crawlResult, browser, i, result, allResults,
                   allViolations, summary, console, files, leads, pkg,
                   events>>

\* a loop whose end is tested one index too late: the close is never reached
CloseBrowserOffByOne ==
    /\ pc = "loop"
    /\ i > Len(crawlResult.urls)
    /\ events' = Append(events, Event("close", i, 0))
    /\ browser' = "closed"
    /\ pc' = "compile"
    /\ UNCHANGED <<baseUrl, maxPages, sitemapLocations, probeIdx, probeLog,
                   allUrls, crawlResult, i, result, allResults, allViolations,
                   summary, console, files, leads, pkg>>

\* the loop condition fails: await browser.close(); a rejection ends
\* runFullAudit before Step 4
CloseBrowser ==
    /\ pc = "loop"
    /\ ~ (i < Len(crawlResult.urls))
    /\ events' = Append(events, Event("close", i, 0))
    /\ \/ /\ browser' = "closed"
          /\ pc' = "compile"
       \/ /\ browser' = browser
          /\ pc' = "raised"
    /\ UNCHANGED <<baseUrl, maxPages, sitemapLocations, probeIdx, probeLog,
                   allUrls, crawlResult, i, result, allResults, allViolations,
                   summary, console, files, leads, pkg>>

\* Step 4 and the return of runFullAudit to main
Compile ==
    /\ pc = "compile"
    /\ summary' = CompileSummary(baseUrl, crawlResult, allResults, allViolations)
    /\ pc' = "print"
    /\ UNCHANGED <<baseUrl, maxPages, sitemapLocations, probeIdx, probeLog,
                   allUrls, crawlResult, browser, i, result, allResults,
                   allViolations, console, files, leads, pkg,
                   events>>

----------------------------------------------------------------------------
(* The renderers, as main calls them                                       *)

\* a printSummary that takes the issues it lists out of the ranking
\* (splice in place of a read)
PrintSummarySplice ==
    /\ pc = "print"
    /\ console' = printSummaryGrade(summary)
    /\ summary' = [summary EXCEPT !.topIssues = SubSeq(@, 6, Len(@))]
    /\ pc' = "csv"
    /\ UNCHANGED <<baseUrl, maxPages, sitemapLocations, probeIdx, probeLog,
                   allUrls, crawlResult, browser, i, result, allResults,
                   allViolations, files, leads, pkg, events>>

\* printSummary(summary): of what it prints, the lead qualification is kept
PrintSummary ==
    /\ pc = "print"
    /\ console' = printSummaryGrade(summary)
    /\ pc' = "csv"
    /\ UNCHANGED <<baseUrl, maxPages, sitemapLocations, probeIdx, probeLog,
                   allUrls, crawlResult, browser, i, result, allResults,
                   allViolations, summary, files, leads, pkg,
                   events>>

\* exportToCSV(summary, violations.csv)
ExportToCSV ==
    /\ pc = "csv"
    /\ files' = [files EXCEPT !.written = @ \cup {"violations.csv"},
                              !.csv = CsvRows(summary)]
    /\ pc' = "summary_txt"
    /\ UNCHANGED <<baseUrl, maxPages, sitemapLocations, probeIdx, probeLog,
                   allUrls, crawlResult, browser, i, result, allResults,
                   allViolations, summary, console, leads, pkg,
                   events>>

\* exportSummaryText(summary, summary.txt): the lead qualification is kept
ExportSummaryText ==
    /\ pc = "summary_txt"
    /\ files' = [files EXCEPT !.written = @ \cup {"summary.txt"},
                              !.summaryTxt = exportSummaryTextGrade(summary)]
    /\ pc' = "json"
    /\ UNCHANGED <<baseUrl, maxPages, sitemapLocations, probeIdx, probeLog,
                   allUrls, crawlResult, browser, i, result, allResults,
                   allViolations, summary, console, leads, pkg,
                   events>>

\* exportToJSON(summary, raw-results.json): the summary itself
ExportToJSON ==
    /\ pc = "json"
    /\ files' = [files EXCEPT !.written = @ \cup {"raw-results.json"},
                              !.rawResults = summary]
    /\ pc' = "done"
    /\ UNCHANGED <<baseUrl, maxPages, sitemapLocations, probeIdx, probeLog,
                   allUrls, crawlResult, browser, i, result, allResults,
                   allViolations, summary, console, leads, pkg,
                   events>>

----------------------------------------------------------------------------
(* summarize-leads (src/unnamed/part_005), run on the output folder        *)

\* summarize-leads reads raw-results.json and grades it: after the audit, and
\* again after the lead-package generator has rewritten the file or the
\* report script has added its PDF
SummarizeLeads ==
    /\ pc \in {"done", "packaged", "reported"}
    /\ leads' = summarizeLeadsGrade(files.rawResults)
    /\ pc' = IF pc = "done" THEN "summarized" ELSE "resummarized"
    /\ UNCHANGED <<baseUrl, maxPages, sitemapLocations, probeIdx, probeLog,
                   allUrls, crawlResult, browser, i, result, allResults,
                   allViolations, summary, console, files, pkg,
                   events>>

----------------------------------------------------------------------------
(* The lead-package generator (src/unnamed/part_004): main and runScan,    *)
(* run on the URL of the audit, the same day, so on the same output folder *)

\* const MAX_PAGES = 10
MAX_PAGES == 10
\* runScan: setTimeout(r, 1000) after the navigation
PackageSettleMs == 1000
\* runScan: setTimeout(r, 500) after every page
PackagePaceMs == 500

\* runScan: pagesToScan.slice(0, MAX_PAGES)
PagesToScan(u) ==
    SliceTo(<<u,
              u \o <<"/","c","o","n","t","a","c","t">>,
              u \o <<"/","a","b","o","u","t">>,
              u \o <<"/","c","a","l","e","n","d","a","r">>,
              u \o <<"/","s","t","a","f","f">>>>, MAX_PAGES)

\* the value of result before runScan has returned
NoScanResult ==
    [domain |-> <<>>, pagesScanned |-> 0, totalViolations |-> 0,
     bySeverity |-> ZeroSeverity, topIssues |-> <<>>, allViolations |-> <<>>,
     leadGrade |-> ""]

\* the generator has not run: browser is runScan's browser, page the index
\* of pageUrl in pagesToScan (0-based), allViolations and pagesScanned the
\* locals of runScan, result what runScan returned to main, calls the
\* browser and timer calls made so far
NoPackage ==
    [browser |-> "none", page |-> 0, allViolations |-> <<>>,
     pagesScanned |-> <<>>, result |-> NoScanResult, calls |-> <<>>]

\* a critical rule that fails on twelve nodes of a page
RawImageAltMany == [id |-> "image-alt", impact |-> "critical", nodes |-> 12]

\* what the pages of the site give the generator: page.goto() throws,
\* analyze() throws, or analyze() resolves to a list of violations.  The home
\* page is clean or has violations, or cannot be reached; /contact has one
\* minor rule or its analysis fails; the other three pages are clean.
PackageResponses(page) ==
    IF page = 0
    THEN {[kind |-> "goto throws", violations |-> <<>>],
          [kind |-> "results", violations |-> <<>>],
          [kind |-> "results", violations |-> <<RawImageAltMany>>],
          [kind |-> "results", violations |-> <<RawContrast, RawRegion>>]}
    ELSE IF page = 1
    THEN {[kind |-> "analyze throws", violations |-> <<>>],
          [kind |-> "results", violations |-> <<RawLabel>>]}
    ELSE {[kind |-> "results", violations |-> <<>>]}

\* runScan: the record pushed to allViolations for a violation of pageUrl
ToScanViolation(v, pageUrl) ==
    [id |-> v.id,
     impact |-> IF Truthy(v.impact) THEN v.impact ELSE "minor",
     nodes |-> v.nodes,
     pageUrl |-> pageUrl]

\* runScan: if (severity in bySeverity) bySeverity[severity] += v.nodes
runScanCountSeverity(bySeverity, v) ==
    IF v.impact \in DOMAIN bySeverity
    THEN [bySeverity EXCEPT ![v.impact] = @ + v.nodes]
    ELSE bySeverity

\* runScan: if (!issueCount[v.id]) {...}; issueCount[v.id].count += v.nodes
runScanCountIssue(issueCount, v) ==
    LET started ==
            IF \E k \in 1..Len(issueCount) : issueCount[k].rule = v.id
            THEN issueCount
            ELSE Append(issueCount, [rule |-> v.id, count |-> 0, impact |-> v.impact])
        at == CHOOSE k \in 1..Len(started) : started[k].rule = v.id
    IN  [started EXCEPT ![at].count = @ + v.nodes]

\* runScan: for (const v of allViolations) from the k-th record on: the tally
RECURSIVE runScanBySeverityFrom(_, _, _)
runScanBySeverityFrom(bySeverity, vs, k) ==
    IF k > Len(vs) THEN bySeverity
    ELSE IF bySeverity = bySeverity
    THEN runScanBySeverityFrom(runScanCountSeverity(bySeverity, vs[k]), vs, k + 1)
    ELSE bySeverity

\* runScan: bySeverity after the loop
runScanBySeverity(vs) == runScanBySeverityFrom(ZeroSeverity, vs, 1)

\* runScan: for (const v of allViolations) from the k-th record on: issueCount
RECURSIVE runScanIssueCountFrom(_, _, _)
runScanIssueCountFrom(issueCount, vs, k) ==
    IF k > Len(vs) THEN issueCount
    ELSE IF issueCount = issueCount
    THEN runScanIssueCountFrom(runScanCountIssue(issueCount, vs[k]), vs, k + 1)
    ELSE issueCount

\* runScan: const topIssues = Object.entries(issueCount)...sort(...).slice(0, 10)
runScanTopIssues(vs) == SliceTo(SortByCount(runScanIssueCountFrom(<<>>, vs, 1)), TopN)

\* runScan: const totalViolations = the sum of the four severity counts
runScanTotalViolations(bySeverity) ==
    bySeverity.critical + bySeverity.serious + bySeverity.moderate + bySeverity.minor

\* runScan: the ScanResult it returns
ScanResultOf(u, vs, scanned) ==
    [domain |-> UrlHost(u),
     pagesScanned |-> Len(scanned),
     totalViolations |-> runScanTotalViolations(runScanBySeverity(vs)),
     bySeverity |-> runScanBySeverity(vs),
     topIssues |-> runScanTopIssues(vs),
     allViolations |-> vs,
     leadGrade |-> runScanLeadGrade(runScanBySeverity(vs))]

\* main: csvData, one row per record of result.allViolations
PackageCsvRows(r) ==
    [k \in 1..Len(r.allViolations) |->
        [ruleId |-> r.allViolations[k].id,
         severity |-> SeverityUpperCase[r.allViolations[k].impact],
         pageUrl |-> r.allViolations[k].pageUrl,
         instances |-> r.allViolations[k].nodes]]

\* one more call in the log of the generator
Called(op, ms) == [pkg EXCEPT !.calls = Append(@, Event(op, pkg.page, ms))]

\* main up to runScan's first await: new URL(url) in main and in runScan
\* (a malformed URL rejects main), mkdirSync, then
\* const browser = await puppeteer.launch({headless: true})
PackageLaunch ==
    /\ pc = "summarized"
    /\ IF ~ isValidUrl(baseUrl)
       THEN /\ pkg' = pkg
            /\ pc' = "pkg_rejected"
       ELSE \/ /\ pkg' = [Called("launch", 0) EXCEPT !.browser = "open"]
               /\ pc' = "pkg_launched"
            \/ /\ pkg' = Called("launch", 0)
               /\ pc' = "pkg_rejected"
    /\ UNCHANGED <<baseUrl, maxPages, sitemapLocations, probeIdx, probeLog,
                   allUrls, crawlResult, browser, i, result, allResults,
                   allViolations, summary, console, files, leads, events>>

\* runScan: const page = await browser.newPage()
PackageNewPage ==
    /\ pc = "pkg_launched"
    /\ pkg' = Called("newPage", 0)
    /\ \/ pc' = "pkg_paged"
       \/ pc' = "pkg_rejected"
    /\ UNCHANGED <<baseUrl, maxPages, sitemapLocations, probeIdx, probeLog,
                   allUrls, crawlResult, browser, i, result, allResults,
                   allViolations, summary, console, files, leads, events>>

\* runScan: await page.setViewport(...), then allViolations = [],
\* pagesScanned = [] and the loop over pagesToScan begins
PackageSetViewport ==
    /\ pc = "pkg_paged"
    /\ \/ /\ pkg' = [Called("setViewport", 0) EXCEPT !.allViolations = <<>>,
                                                     !.pagesScanned = <<>>,
                                                     !.page = 0]
          /\ pc' = "pkg_loop"
       \/ /\ pkg' = Called("setViewport", 0)
          /\ pc' = "pkg_rejected"
    /\ UNCHANGED <<baseUrl, maxPages, sitemapLocations, probeIdx, probeLog,
                   allUrls, crawlResult, browser, i, result, allResults,
                   allViolations, summary, console, files, leads, events>>

\* runScan: await page.goto(pageUrl, ...); a throw goes to the catch block,
\* which logs it, and on to the delay after the page
PackageGoto(responses) ==
    /\ pc = "pkg_loop"
    /\ pkg.page < Len(PagesToScan(baseUrl))
    /\ pkg' = Called("goto", 0)
    /\ \/ /\ \E resp \in responses : resp.kind # "goto throws"
          /\ pc' = "pkg_settle"
       \/ /\ \E resp \in responses : resp.kind = "goto throws"
          /\ pc' = "pkg_pace"
    /\ UNCHANGED <<baseUrl, maxPages, sitemapLocations, probeIdx, probeLog,
                   allUrls, crawlResult, browser, i, result, allResults,
                   allViolations, summary, console, files, leads, events>>

\* runScan: await new Promise(r => setTimeout(r, 1000))
PackageSettle ==
    /\ pc = "pkg_settle"
    /\ pkg' = Called("settle", PackageSettleMs)
    /\ pc' = "pkg_analyze"
    /\ UNCHANGED <<baseUrl, maxPages, sitemapLocations, probeIdx, probeLog,
                   allUrls, crawlResult, browser, i, result, allResults,
                   allViolations, summary, console, files, leads, events>>

\* runScan: await new AxePuppeteer(page)...analyze(), the violations pushed
\* to allViolations and pagesScanned.push(pageUrl); a throw goes to the catch
\* block: nothing is pushed
PackageAnalyze(responses) ==
    /\ pc = "pkg_analyze"
    /\ \E resp \in responses :
         LET pageUrl == PagesToScan(baseUrl)[pkg.page + 1] IN
         \/ /\ resp.kind = "results"
            /\ pkg' = [Called("analyze", 0) EXCEPT
                         !.allViolations = @ \o
                            [k \in 1..Len(resp.violations) |->
                                ToScanViolation(resp.violations[k], pageUrl)],
                         !.pagesScanned = Append(@, pageUrl)]
         \/ /\ resp.kind = "analyze throws"
            /\ pkg' = Called("analyze", 0)
    /\ pc' = "pkg_pace"
    /\ UNCHANGED <<baseUrl, maxPages, sitemapLocations, probeIdx, probeLog,
                   allUrls, crawlResult, browser, i, result, allResults,
                   allViolations, summary, console, files, leads, events>>

\* runScan: await new Promise(r => setTimeout(r, 500)), after every page,
\* then the next pageUrl
PackagePace ==
    /\ pc = "pkg_pace"
    /\ pkg' = [Called("delay", PackagePaceMs) EXCEPT !.page = @ + 1]
    /\ pc' = "pkg_loop"
    /\ UNCHANGED <<baseUrl, maxPages, sitemapLocations, probeIdx, probeLog,
                   allUrls, crawlResult, browser, i, result, allResults,
                   allViolations, summary, console, files, leads, events>>

\* runScan: the loop is over: await browser.close(); a rejection rejects main
PackageClose ==
    /\ pc = "pkg_loop"
    /\ ~ (pkg.page < Len(PagesToScan(baseUrl)))
    /\ \/ /\ pkg' = [Called("close", 0) EXCEPT !.browser = "closed"]
          /\ pc' = "pkg_aggregate"
       \/ /\ pkg' = Called("close", 0)
          /\ pc' = "pkg_rejected"
    /\ UNCHANGED <<baseUrl, maxPages, sitemapLocations, probeIdx, probeLog,
                   allUrls, crawlResult, browser, i, result, allResults,
                   allViolations, summary, console, files, leads, events>>

\* runScan: the aggregation, the grade and the return of the ScanResult
PackageReturn ==
    /\ pc = "pkg_aggregate"
    /\ pkg' = [pkg EXCEPT !.result = ScanResultOf(baseUrl, pkg.allViolations,
                                                  pkg.pagesScanned)]
    /\ pc' = "pkg_write"
    /\ UNCHANGED <<baseUrl, maxPages, sitemapLocations, probeIdx, probeLog,
                   allUrls, crawlResult, browser, i, result, allResults,
                   allViolations, summary, console, files, leads, events>>

\* the summary page of accessibility-report.pdf: the figures of the scan and
\* the first top issues of its ranking
ReportPdfOf(data, top) ==
    [domain |-> data.domain,
     pagesScanned |-> data.pagesScanned,
     totalViolations |-> data.totalViolations,
     bySeverity |-> data.bySeverity,
     topIssues |-> SliceTo(data.topIssues, top)]

\* generatePDF: result.topIssues.slice(0, 5)
PackageTopIssues == 5

\* main after runScan: raw-results.json, email-draft.txt and violations.csv
\* are written to the output folder, over the files of the same name the
\* audit left there; generatePDF pipes accessibility-report.pdf to a write
\* stream, which has not created the file when main's code ends
PackageWrite ==
    /\ pc = "pkg_write"
    /\ files' = [files EXCEPT
                   !.written = @ \cup {"raw-results.json", "email-draft.txt",
                                       "violations.csv"},
                   !.pending = @ \cup {"accessibility-report.pdf"},
                   !.rawResults = pkg.result,
                   !.csv = PackageCsvRows(pkg.result)]
    /\ pc' = "pkg_pdf"
    /\ UNCHANGED <<baseUrl, maxPages, sitemapLocations, probeIdx, probeLog,
                   allUrls, crawlResult, browser, i, result, allResults,
                   allViolations, summary, console, leads, pkg, events>>

\* the write stream of generatePDF creates accessibility-report.pdf, a turn
\* of the event loop after main's code has ended
PackagePdfWritten ==
    /\ pc = "pkg_pdf"
    /\ files' = [files EXCEPT
                   !.written = @ \cup {"accessibility-report.pdf"},
                   !.pending = @ \ {"accessibility-report.pdf"},
                   !.reportPdf = ReportPdfOf(pkg.result, PackageTopIssues)]
    /\ pc' = "packaged"
    /\ UNCHANGED <<baseUrl, maxPages, sitemapLocations, probeIdx, probeLog,
                   allUrls, crawlResult, browser, i, result, allResults,
                   allViolations, summary, console, leads, pkg, events>>

----------------------------------------------------------------------------
(* generate-pdf-report.js (src/unnamed/part_006), run with the name of the *)
(* output folder                                                           *)

\* const topIssues = data.topIssues.slice(0, 6)
ReportTopIssues == 6

\* the script reads raw-results.json and pipes accessibility-report.pdf to a
\* write stream; the other files of the folder are left as they are
GeneratePdfReport ==
    /\ pc = "summarized"
    /\ "raw-results.json" \in files.written
    /\ files' = [files EXCEPT !.pending = @ \cup {"accessibility-report.pdf"}]
    /\ pc' = "pdf_report"
    /\ UNCHANGED <<baseUrl, maxPages, sitemapLocations, probeIdx, probeLog,
                   allUrls, crawlResult, browser, i, result, allResults,
                   allViolations, summary, console, leads, pkg, events>>

\* the write stream creates accessibility-report.pdf and the script ends
\* with status 0
PdfReportWritten ==
    /\ pc = "pdf_report"
    /\ files' = [files EXCEPT
                   !.written = @ \cup {"accessibility-report.pdf"},
                   !.pending = @ \ {"accessibility-report.pdf"},
                   !.reportPdf = ReportPdfOf(files.rawResults, ReportTopIssues)]
    /\ pc' = "reported"
    /\ UNCHANGED <<baseUrl, maxPages, sitemapLocations, probeIdx, probeLog,
                   allUrls, crawlResult, browser, i, result, allResults,
                   allViolations, summary, console, leads, pkg, events>>

----------------------------------------------------------------------------
(* generate-proposal.ts (src/src/generate-proposal.ts): generateProposal   *)
(* and its command line, run on raw-results.json                           *)

\* the ProposalConfig generateProposal is called with: the command line sets
\* no estimate; a caller of the exported function may set them (0 counts as
\* not set)
ProposalConfigs ==
    {[contactName |-> "Administrator"],
     [contactName |-> "Administrator", estimatedPages |-> 120, estimatedPDFs |-> 10],
     [contactName |-> "Administrator", estimatedPages |-> 600, estimatedPDFs |-> 0]}

\* config.estimatedPages || 50 and config.estimatedPDFs || 50
EstimateOr(config, field, default) ==
    IF field \in DOMAIN config /\ config[field] # 0 THEN config[field] ELSE default

\* calculatePricing(result, config), with what the proposal shows of result
calculatePricing(scan, config) ==
    LET totalIssues == scan.totalViolations
        criticalSerious == scan.bySeverity.critical + scan.bySeverity.serious
        pages == EstimateOr(config, "estimatedPages", 50)
        pdfs == EstimateOr(config, "estimatedPDFs", 50)
        auditPrice == IF pages > 500 THEN 15000
                      ELSE IF pages > 100 THEN 10000 ELSE 5000
        remediationBase == IF totalIssues > 50 THEN 40000
                           ELSE IF totalIssues > 20 THEN 25000 ELSE 15000
        remediationPrice == IF criticalSerious > 10
                            THEN remediationBase + 10000 ELSE remediationBase
        pdfPrice == pdfs * 75
        trainingPrice == 2500
        monitoringPrice == 6000
    IN  [totalViolations |-> scan.totalViolations,
         critical |-> scan.bySeverity.critical,
         serious |-> scan.bySeverity.serious,
         moderate |-> scan.bySeverity.moderate,
         audit |-> auditPrice,
         remediation |-> remediationPrice,
         pdf |-> pdfPrice,
         training |-> trainingPrice,
         monitoring |-> monitoringPrice,
         total |-> auditPrice + remediationPrice + pdfPrice + trainingPrice,
         totalWithMonitoring |-> auditPrice + remediationPrice + pdfPrice
                                   + trainingPrice + monitoringPrice]

\* generateProposal(result, config, outputPath) on the parsed
\* raw-results.json: proposal.pdf is piped to a write stream
GenerateProposal(configs) ==
    /\ pc \in {"summarized", "resummarized"}
    /\ "raw-results.json" \in files.written
    /\ \E config \in configs :
         files' = [files EXCEPT
                     !.pending = @ \cup {"proposal.pdf"},
                     !.proposalPdf = calculatePricing(files.rawResults, config)]
    /\ pc' = "proposal"
    /\ UNCHANGED <<baseUrl, maxPages, sitemapLocations, probeIdx, probeLog,
                   allUrls, crawlResult, browser, i, result, allResults,
                   allViolations, summary, console, leads, pkg, events>>

\* the write stream creates proposal.pdf next to raw-results.json
ProposalWritten ==
    /\ pc = "proposal"
    /\ files' = [files EXCEPT !.written = @ \cup {"proposal.pdf"},
                              !.pending = @ \ {"proposal.pdf"}]
    /\ pc' = "proposed"
    /\ UNCHANGED <<baseUrl, maxPages, sitemapLocations, probeIdx, probeLog,
                   allUrls, crawlResult, browser, i, result, allResults,
                   allViolations, summary, console, leads, pkg, events>>

----------------------------------------------------------------------------
(* Specifications                                                          *)

\* nothing has run yet
Fresh ==
    /\ sitemapLocations = <<>>
    /\ probeIdx = 1
    /\ probeLog = <<>>
    /\ allUrls = <<>>
    /\ crawlResult = NoCrawlResult
    /\ browser = "none"
    /\ i = 0
    /\ result = NoResult
    /\ allResults = <<>>
    /\ allViolations = <<>>
    /\ summary = NoSummary
    /\ console = ""
    /\ files = NoFiles
    /\ leads = ""
    /\ pkg = NoPackage
    /\ events = <<>>

\* the audit command: main with a URL and a page cap
Init ==
    /\ pc = "main"
    /\ baseUrl \in BaseUrls
    /\ maxPages \in 1..MaxPagesCap
    /\ Fresh

Next ==
    \/ ValidateUrl
    \/ CrawlEntry
    \/ Probe(PipelineResponses)
    \/ CrawlReturn
    \/ LaunchBrowser
    \/ NewPage
    \/ SetViewport
    \/ Goto
    \/ Settle
    \/ Analyze
    \/ Record
    \/ Delay
    \/ CloseBrowser
    \/ Compile
    \/ PrintSummary
    \/ ExportToCSV
    \/ ExportSummaryText
    \/ ExportToJSON
    \/ MainCatch

Spec == Init /\ [][Next]_vars

\* the steps of the audit command other than Step 4
RunStep ==
    \/ ValidateUrl
    \/ CrawlEntry
    \/ Probe(PipelineResponses)
    \/ CrawlReturn
    \/ LaunchBrowser
    \/ NewPage
    \/ SetViewport
    \/ Goto
    \/ Settle
    \/ Analyze
    \/ Record
    \/ Delay
    \/ CloseBrowser
    \/ PrintSummary
    \/ ExportToCSV
    \/ ExportSummaryText
    \/ ExportToJSON
    \/ MainCatch

\* Step 4 returns: the step Compile, told by the positions alone
CompileReturns == pc = "compile" /\ pc' = "print"

NextLive == RunStep \/ Compile

\* the audit command when every awaited call settles and synchronous code
\* runs on: a step that can be taken is taken.  (The fairness of Step 4 is
\* written on CompileReturns, which is the step Compile in a run of
\* NextLive and is enabled exactly when Compile is.)
SpecLive ==
    Init /\ [][NextLive]_vars /\ WF_vars(RunStep) /\ WF_pc(CompileReturns)

\* getUrlsFromSitemap called with any URL, against any sitemap responses
InitCrawl ==
    /\ pc = "crawl"
    /\ baseUrl \in BaseUrls
    /\ maxPages \in 1..MaxPagesCap
    /\ Fresh

NextCrawl ==
    \/ CrawlEntry
    \/ Probe(AllResponses)
    \/ CrawlReturn

SpecCrawl == InitCrawl /\ [][NextCrawl]_vars

----------------------------------------------------------------------------
(* Grading over a range of tallies.  A run is taken up where the scan loop *)
(* has ended and the browser is closed, with the violations of a scan that *)
(* found as many records of each severity as the tally asks for: page j    *)
(* holds one record of each severity whose count is at least j.            *)

\* the moderate counts drawn: they bring the total next to 15 and to 25
ModerateCounts == {0, 1, 14, 24}
\* the minor counts drawn
MinorCounts == {0, 1}

Digits == <<"0","1","2","3","4","5","6","7","8","9">>

\* the URL of the j-th page of such a scan: "/p" and two digits
PageUrl(j) == <<"/", "p", Digits[(j \div 10) + 1], Digits[(j % 10) + 1]>>

\* the rule that fails with each severity
RuleOfSeverity ==
    [critical |-> "image-alt", serious |-> "color-contrast",
     moderate |-> "region", minor |-> "label"]

\* the violations of page j under the tally want
RECURSIVE PageViolations(_, _, _)
PageViolations(want, j, k) ==
    IF k > Len(Severities) THEN <<>>
    ELSE (IF want[Severities[k]] >= j
          THEN <<[id |-> RuleOfSeverity[Severities[k]], impact |-> Severities[k],
                  nodeCount |-> 1, pageUrl |-> PageUrl(j)]>>
          ELSE <<>>) \o PageViolations(want, j, k + 1)

\* the PageResult of page j under the tally want
PageResultOf(want, j) ==
    [url |-> PageUrl(j), violations |-> PageViolations(want, j, 1),
     passes |-> 1, incomplete |-> 0, error |-> Undefined]

\* the violations of pages j..n, in page order
RECURSIVE ViolationsFrom(_, _, _)
ViolationsFrom(want, j, n) ==
    IF j > n THEN <<>>
    ELSE PageViolations(want, j, 1) \o ViolationsFrom(want, j + 1, n)

\* the calls of a scan of pages j..n-1 (loop indices) none of which failed
RECURSIVE ScanEvents(_, _)
ScanEvents(j, n) ==
    IF j >= n THEN <<>>
    ELSE <<Event("goto", j, 0), Event("settle", j, SettleMs),
           Event("analyze", j, 0), Event("record", j, 0)>>
         \o (IF j < n - 1 THEN <<Event("delay", j, PaceMs)>> ELSE <<>>)
         \o ScanEvents(j + 1, n)

\* the calls of a whole run over n pages, the browser closed
RunEvents(n) ==
    <<Event("launch", 0, 0), Event("newPage", 0, 0), Event("setViewport", 0, 0)>>
        \o ScanEvents(0, n) \o <<Event("close", n, 0)>>

\* the number of pages of the scan: the largest count, and at least one page
PagesFor(want) ==
    LET counts == {want[Severities[k]] : k \in 1..Len(Severities)} \cup {1}
    IN  CHOOSE n \in counts : \A m \in counts : m <= n

InitGrade ==
    \E want \in [critical : 0..MaxSeverityCount, serious : 0..MaxSeverityCount,
                 moderate : ModerateCounts, minor : MinorCounts] :
      LET n == PagesFor(want)
          urls == [j \in 1..n |-> PageUrl(j)]
      IN  /\ pc = "compile"
          /\ baseUrl = UrlRoot
          /\ maxPages = n
          /\ sitemapLocations = SitemapLocationsOf(UrlRoot)
          /\ probeIdx = 1
          /\ probeLog = <<[url |-> SitemapLocationsOf(UrlRoot)[1], resp |-> FetchSites(urls)]>>
          /\ allUrls = urls
          /\ crawlResult = SitemapResult(urls, n)
          /\ browser = "closed"
          /\ i = n
          /\ result = PageResultOf(want, n)
          /\ allResults = [j \in 1..n |-> PageResultOf(want, j)]
          /\ allViolations = ViolationsFrom(want, 1, n)
          /\ summary = NoSummary
          /\ console = ""
          /\ files = NoFiles
          /\ leads = ""
          /\ pkg = NoPackage
          /\ events = RunEvents(n)

NextGrade ==
    \/ Compile
    \/ PrintSummary
    \/ ExportToCSV
    \/ ExportSummaryText
    \/ ExportToJSON
    \/ SummarizeLeads
    \/ PackageLaunch
    \/ PackageNewPage
    \/ PackageSetViewport
    \/ PackageGoto(PackageResponses(pkg.page))
    \/ PackageSettle
    \/ PackageAnalyze(PackageResponses(pkg.page))
    \/ PackagePace
    \/ PackageClose
    \/ PackageReturn
    \/ PackageWrite
    \/ PackagePdfWritten
    \/ GeneratePdfReport
    \/ PdfReportWritten
    \/ GenerateProposal(ProposalConfigs)
    \/ ProposalWritten

SpecGrade == InitGrade /\ [][NextGrade]_vars

----------------------------------------------------------------------------
(* The ranking over many rules.  A run is taken up where the scan loop has *)
(* ended, after a scan of two pages that found n distinct rules: page 1    *)
(* holds a record of every rule, page 2 of the rules found twice.          *)

\* rule identifiers as axe reports them
RuleIds == <<"area-alt", "aria-roles", "button-name", "color-contrast",
             "document-title", "duplicate-id", "frame-title", "html-has-lang",
             "image-alt", "label", "link-name", "list", "meta-viewport",
             "region">>

\* on how many of the two pages a rule is found
RuleFound == {1, 2}

\* the record of rule k on page j
RuleViolation(k, j) ==
    [id |-> RuleIds[k], impact |-> Severities[(k % Len(Severities)) + 1],
     nodeCount |-> (k % 3) + 1, pageUrl |-> PageUrl(j)]

\* the records of rules k..n on page j
RECURSIVE RankPageViolations(_, _, _, _)
RankPageViolations(found, n, j, k) ==
    IF k > n THEN <<>>
    ELSE (IF found[k] >= j THEN <<RuleViolation(k, j)>> ELSE <<>>)
         \o RankPageViolations(found, n, j, k + 1)

\* the PageResult of page j
RankPageResult(found, n, j) ==
    [url |-> PageUrl(j), violations |-> RankPageViolations(found, n, j, 1),
     passes |-> 1, incomplete |-> 0, error |-> Undefined]

InitRank ==
    \E n \in (MaxRules - 2)..MaxRules :
      \E found \in [1..n -> RuleFound] :
        LET urls == <<PageUrl(1), PageUrl(2)>>
        IN  /\ pc = "compile"
            /\ baseUrl = UrlRoot
            /\ maxPages = 2
            /\ sitemapLocations = SitemapLocationsOf(UrlRoot)
            /\ probeIdx = 1
            /\ probeLog = <<[url |-> SitemapLocationsOf(UrlRoot)[1], resp |-> FetchSites(urls)]>>
            /\ allUrls = urls
            /\ crawlResult = SitemapResult(urls, 2)
            /\ browser = "closed"
            /\ i = 2
            /\ result = RankPageResult(found, n, 2)
            /\ allResults = <<RankPageResult(found, n, 1), RankPageResult(found, n, 2)>>
            /\ allViolations = RankPageViolations(found, n, 1, 1)
                                 \o RankPageViolations(found, n, 2, 1)
            /\ summary = NoSummary
            /\ console = ""
            /\ files = NoFiles
            /\ leads = ""
            /\ pkg = NoPackage
            /\ events = RunEvents(2)

NextRank ==
    \/ Compile
    \/ PrintSummary
    \/ ExportToCSV
    \/ ExportSummaryText
    \/ ExportToJSON

SpecRank == InitRank /\ [][NextRank]_vars

----------------------------------------------------------------------------
(* The filter over many file extensions.  getUrlsFromSitemap is taken up   *)
(* where its first probe has returned a list of one or two URLs.           *)

\* the file extensions the URLs end with
FilterExtensions ==
    << <<".","p","d","f">>, <<".","j","p","g">>, <<".","j","p","e","g">>,
       <<".","p","n","g">>, <<".","g","i","f">>, <<".","d","o","c">>,
       <<".","d","o","c","x">>, <<".","x","l","s">>, <<".","x","l","s","x">>,
       <<".","z","i","p">>, <<".","r","a","r">>, <<".","h","t","m","l">>,
       <<".","t","x","t">> >>

\* one character in upper case
toUpperChar(c) ==
    IF \E k \in 1..26 : LowerCase[k] = c
    THEN UpperCase[CHOOSE k \in 1..26 : LowerCase[k] = c]
    ELSE c

\* a string in upper case
toUpperCase(s) == [k \in 1..Len(s) |-> toUpperChar(s[k])]

\* a string with its second character in upper case
Capitalized(s) == [k \in 1..Len(s) |-> IF k = 2 THEN toUpperChar(s[k]) ELSE s[k]]

\* the path every URL of the pool starts with
Stem == <<"/", "f">>

\* the URLs a sitemap may list: for each extension the path with it, in
\* lower, upper and mixed case, followed by a query mark, and without its dot
FilterPool ==
    {Stem} \cup UNION {
        {Stem \o FilterExtensions[e],
         Stem \o toUpperCase(FilterExtensions[e]),
         Stem \o Capitalized(FilterExtensions[e]),
         Stem \o FilterExtensions[e] \o <<"?">>,
         Stem \o Tail(FilterExtensions[e])} : e \in 1..Len(FilterExtensions)}

InitFilter ==
    \E urls \in SeqUpTo(FilterPool, 2) \ {<<>>} :
        /\ pc = "crawl_return"
        /\ baseUrl = UrlRoot
        /\ maxPages \in 1..MaxPagesCap
        /\ sitemapLocations = SitemapLocationsOf(UrlRoot)
        /\ probeIdx = 1
        /\ probeLog = <<[url |-> SitemapLocationsOf(UrlRoot)[1], resp |-> FetchSites(urls)]>>
        /\ allUrls = urls
        /\ crawlResult = NoCrawlResult
        /\ browser = "none"
        /\ i = 0
        /\ result = NoResult
        /\ allResults = <<>>
        /\ allViolations = <<>>
        /\ summary = NoSummary
        /\ console = ""
        /\ files = NoFiles
        /\ leads = ""
        /\ pkg = NoPackage
        /\ events = <<>>

NextFilter == CrawlReturn

SpecFilter == InitFilter /\ [][NextFilter]_vars

----------------------------------------------------------------------------
(* Properties                                                              *)

\* the audit command has ended with status 0; the summary script or the
\* lead-package generator may be running
AfterAudit ==
    pc \in {"done", "summarized", "pkg_launched", "pkg_paged", "pkg_loop",
            "pkg_settle", "pkg_analyze", "pkg_pace", "pkg_aggregate",
            "pkg_write", "pkg_pdf", "pkg_rejected", "packaged", "pdf_report",
            "reported", "resummarized", "proposal", "proposed"}

\* runFullAudit has returned its summary to main
Returned == pc \in {"print", "csv", "summary_txt", "json"} \/ AfterAudit

\* the scan loop of runFullAudit has ended
LoopEnded == pc = "compile" \/ Returned

\* critical + serious of the summary
CriticalSerious == summary.bySeverity.critical + summary.bySeverity.serious

\* the lead grade the threshold rule gives a tally and a total: first match
\* wins
RuleGradeOf(bySeverity, total) ==
    IF bySeverity.critical + bySeverity.serious >= 10 \/ total >= 25 THEN "A"
    ELSE IF bySeverity.critical + bySeverity.serious >= 5 \/ total >= 15 THEN "B"
    ELSE IF total >= 1 THEN "C"
    ELSE "Skip"

\* the lead grade the threshold rule gives the summary
RuleGrade == RuleGradeOf(summary.bySeverity, summary.totalViolations)

\* how the audit command writes each grade
AuditLabel == [A |-> "A-LEAD", B |-> "B-LEAD", C |-> "C-LEAD", Skip |-> "SKIP"]
\* how the summary script names each grade
LeadsLabel == [A |-> "A", B |-> "B", C |-> "C", Skip |-> "skip"]

\* C1: whatever the tally and the total, the lead qualification printed by
\* printSummary and the one written by exportSummaryText are the grade of
\* the threshold rule: A if critical+serious >= 10 or total >= 25, else B if
\* critical+serious >= 5 or total >= 15, else C if total >= 1, else Skip.
C1_GradeFollowsThresholds ==
    /\ (pc \in {"csv", "summary_txt", "json"} \/ AfterAudit)
         => console = AuditLabel[RuleGrade]
    /\ (pc = "json" \/ AfterAudit)
         => files.summaryTxt = AuditLabel[RuleGrade]

\* both renderers have graded B a summary with fewer than 5 critical and
\* serious violations: the total alone (15 to 24) decided
C1_Witness ==
    /\ pc = "done"
    /\ console = "B-LEAD"
    /\ files.summaryTxt = "B-LEAD"
    /\ CriticalSerious < 5
    /\ summary.totalViolations >= 15

\* runScan has returned its ScanResult to main
Packaged == pkg.result # NoScanResult

\* C2: every place that grades a scan result gives the same tally and total
\* the same grade, the grade of the threshold rule, Skip included:
\* printSummary and exportSummaryText on the profile of the audit, runScan's
\* leadGrade on the ScanResult of the lead-package generator, and the
\* summary script on the raw-results.json either of them wrote.
C2_AllGradersAgree ==
    /\ pc = "summarized" =>
          /\ console = AuditLabel[RuleGrade]
          /\ files.summaryTxt = AuditLabel[RuleGrade]
    /\ pc \in {"summarized", "resummarized"} =>
          leads = LeadsLabel[RuleGradeOf(files.rawResults.bySeverity,
                                         files.rawResults.totalViolations)]
    /\ Packaged =>
          pkg.result.leadGrade
            = RuleGradeOf(pkg.result.bySeverity, pkg.result.totalViolations)

\* C3: when the scan loop has ended there is one outcome per URL of the
\* filtered sequence, and the k-th outcome is that of the k-th URL.
C3_OneOutcomePerUrlInOrder ==
    LoopEnded =>
        /\ Len(allResults) = Len(crawlResult.urls)
        /\ \A k \in 1..Len(allResults) : allResults[k].url = crawlResult.urls[k]

\* the loop has ended over two URLs, the first page failed and the second
\* was scanned
C3_Witness ==
    /\ pc = "compile"
    /\ Len(crawlResult.urls) = 2
    /\ crawlResult.urls[1] # crawlResult.urls[2]
    /\ Len(allResults) = 2
    /\ allResults[1].error # Undefined
    /\ allResults[2].error = Undefined

\* an outcome that carries a failure marker
IsFailure(r) == r.error # Undefined

\* a failure outcome holds no violation and counts no pass, no incomplete
EmptyIfFailed(r) ==
    IsFailure(r) => r.violations = <<>> /\ r.passes = 0 /\ r.incomplete = 0

\* C4: in every state, an outcome with a failure marker has no violations
\* and zero pass and incomplete counts, and every record of the aggregate
\* violation list is a violation of an outcome that is not a failure.
C4_FailureHasNoViolations ==
    /\ EmptyIfFailed(result)
    /\ \A k \in 1..Len(allResults) : EmptyIfFailed(allResults[k])
    /\ \A n \in 1..Len(allViolations) :
         \E k \in 1..Len(allResults) :
            /\ ~ IsFailure(allResults[k])
            /\ allResults[k].url = allViolations[n].pageUrl
            /\ \E m \in 1..Len(allResults[k].violations) :
                 allResults[k].violations[m] = allViolations[n]

\* a scanned page's violations are in the aggregate list and a later page
\* has failed
C4_Witness ==
    /\ Len(allResults) = 2
    /\ ~ IsFailure(allResults[1])
    /\ IsFailure(allResults[2])
    /\ Len(allViolations) > 0

\* a probe that found nothing: the fetch threw or gave an empty list
FoundNothing(entry) == entry.resp.kind = "throw" \/ entry.resp.sites = <<>>

\* C5: when all four probes threw or gave an empty list, getUrlsFromSitemap
\* returns exactly <<baseUrl>>, tagged fallback.
C5_FallbackIsRootUrl ==
    (/\ pc = "crawled"
     /\ Len(probeLog) = 4
     /\ \A k \in 1..4 : FoundNothing(probeLog[k]))
    => /\ crawlResult.urls = <<baseUrl>>
       /\ crawlResult.source = "fallback"

\* four probes found nothing, by a throw and by an empty list, for a URL
\* with a path
C5_Witness ==
    /\ pc = "crawled"
    /\ baseUrl = UrlWithPath
    /\ Len(probeLog) = 4
    /\ \A k \in 1..4 : FoundNothing(probeLog[k])
    /\ probeLog[1].resp.kind = "throw"
    /\ probeLog[4].resp.kind = "sites"

\* the four locations in the order the probing is to follow
C6_Order ==
    << <<"/","s","i","t","e","m","a","p",".","x","m","l">>,
       <<"/","s","i","t","e","m","a","p","_","i","n","d","e","x",".","x","m","l">>,
       <<"/","s","i","t","e","m","a","p","/","s","i","t","e","m","a","p",".","x","m","l">>,
       <<"/","w","p","-","s","i","t","e","m","a","p",".","x","m","l">> >>

\* C6: the k-th probe goes to the k-th of /sitemap.xml, /sitemap_index.xml,
\* /sitemap/sitemap.xml, /wp-sitemap.xml; only the last probe made can have
\* found a non-empty list (nothing is probed after it), and the candidate
\* list is that probe's list alone.
C6_FirstMatchProbing ==
    /\ Len(probeLog) <= 4
    /\ \A k \in 1..Len(probeLog) :
         /\ probeLog[k].url = DomainOf(baseUrl) \o C6_Order[k]
         /\ k < Len(probeLog) => FoundNothing(probeLog[k])
    /\ pc \in {"crawl_return", "crawled"} =>
         allUrls = IF FoundNothing(probeLog[Len(probeLog)]) THEN <<>>
                   ELSE probeLog[Len(probeLog)].resp.sites

\* a throw, an empty list, then a sitemap at the third location
C6_Witness ==
    /\ pc = "crawled"
    /\ Len(probeLog) = 3
    /\ probeLog[1].resp.kind = "throw"
    /\ probeLog[2].resp = FetchSites(<<>>)
    /\ allUrls = probeLog[3].resp.sites
    /\ Len(allUrls) = 2

\* C7: for a well-formed root URL getUrlsFromSitemap never raises, and a
\* probe that throws leaves it where a probe with an empty list does: no
\* candidate yet, the next location due, and after the fourth the fallback.
C7_ProbeFailureIsNotFound ==
    isValidUrl(baseUrl) =>
        /\ pc # "raised"
        /\ pc = "crawled" => crawlResult.source \in {"sitemap", "fallback"}
        /\ (Len(probeLog) > 0 /\ FoundNothing(probeLog[Len(probeLog)])) =>
             /\ allUrls = <<>>
             /\ probeIdx = Len(probeLog) + 1
             /\ Len(probeLog) < 4 => pc = "probe"
             /\ Len(probeLog) = 4 => pc \in {"crawl_return", "crawled"}
             /\ pc = "crawled" => crawlResult.source = "fallback"

\* a probe threw, a later one found a sitemap, and a result was returned
C7_Witness ==
    /\ pc = "crawled"
    /\ isValidUrl(baseUrl)
    /\ Len(probeLog) = 2
    /\ probeLog[1].resp.kind = "throw"
    /\ crawlResult.source = "sitemap"
    /\ Len(crawlResult.urls) > 0

\* the positions of the discovered URLs that no deny pattern matches
Survivors == {j \in 1..Len(allUrls) : IsHtmlUrl(allUrls[j])}

\* the position of the m-th survivor
SurvivorAt(m) == CHOOSE j \in Survivors : Cardinality({h \in Survivors : h < j}) = m - 1

\* C8: the sequence returned from a sitemap has at most maxPages entries:
\* the first min(maxPages, k) of the k survivors, in their original order.
C8_FirstSurvivorsUpToCap ==
    (pc = "crawled" /\ crawlResult.source = "sitemap") =>
        /\ Len(crawlResult.urls) <= maxPages
        /\ Len(crawlResult.urls) =
             IF maxPages < Cardinality(Survivors) THEN maxPages ELSE Cardinality(Survivors)
        /\ \A m \in 1..Len(crawlResult.urls) : crawlResult.urls[m] = allUrls[SurvivorAt(m)]

\* three discovered, the first denied, cap 1: the first of the two survivors
C8_Witness ==
    /\ pc = "crawled"
    /\ allUrls = <<DocPdf, PageD, PageA>>
    /\ maxPages = 1
    /\ crawlResult.urls = <<PageD>>

\* C9: the result reports the number discovered and the number that
\* survived the deny-list: filtered is the number of discovered URLs that
\* match no deny pattern.
C9_FilteredCountsSurvivors ==
    (pc = "crawled" /\ crawlResult.source = "sitemap") =>
        /\ crawlResult.totalFound = Len(allUrls)
        /\ crawlResult.filtered = Cardinality(Survivors)

\* the sum of the counts of a ranking
RECURSIVE SumCounts(_)
SumCounts(issues) ==
    IF issues = <<>> THEN 0 ELSE Head(issues).count + SumCounts(Tail(issues))

\* C10: in the profile runFullAudit returns, totalViolations is the sum of
\* the four severity counts, and the sum of the per-rule counts of the
\* ranking before its truncation.
C10_TotalIsSumOfTallyAndRanking ==
    Returned =>
        /\ summary.totalViolations =
             summary.bySeverity.critical + summary.bySeverity.serious
               + summary.bySeverity.moderate + summary.bySeverity.minor
        /\ summary.totalViolations = SumCounts(RankedIssues(summary.allViolations))

\* a profile of two scanned pages with three severities, a rule found on
\* both pages and records that affect several nodes
C10_Witness ==
    /\ pc = "done"
    /\ summary.totalViolations = 3
    /\ summary.bySeverity.critical = 1
    /\ summary.bySeverity.serious = 1
    /\ summary.bySeverity.moderate = 1
    /\ Len(summary.topIssues) = 2
    /\ \E n \in 1..3 : summary.allViolations[n].nodeCount > 1

\* the occurrence counts (nodeCount) of the records of one severity, summed
RECURSIVE OccurrencesOf(_, _)
OccurrencesOf(vs, severity) ==
    IF vs = <<>> THEN 0
    ELSE (IF Head(vs).impact = severity THEN Head(vs).nodeCount ELSE 0)
         + OccurrencesOf(Tail(vs), severity)

\* C11: in the profile runFullAudit returns, each severity count is the sum
\* of the occurrence counts (nodeCount) of the records of that severity, so
\* that a record affecting n nodes adds n to its severity.
C11_TallySumsOccurrences ==
    Returned =>
        \A k \in 1..Len(Severities) :
            summary.bySeverity[Severities[k]] =
                OccurrencesOf(summary.allViolations, Severities[k])

\* the rule identifiers met in a list of records
RulesIn(vs) == {vs[n].id : n \in 1..Len(vs)}

\* the number of records of a rule
RecordsOf(vs, rule) == Cardinality({n \in 1..Len(vs) : vs[n].id = rule})

\* the rule identifiers a ranking holds
Ranked(top) == {top[a].rule : a \in 1..Len(top)}

\* C12: the ranking of the returned profile holds at most ten entries, no
\* rule twice and every rule when there are at most ten, each with the count
\* of its rule; the counts never increase along it, and no rule left out has
\* a count greater than the count of a rule that is in it.
C12_RankingIsTopTen ==
    Returned =>
        LET top == summary.topIssues
            vs == summary.allViolations
        IN  /\ Len(top) <= 10
            /\ Len(top) = Cardinality(Ranked(top))
            /\ Ranked(top) \subseteq RulesIn(vs)
            /\ Cardinality(RulesIn(vs)) <= 10 => Ranked(top) = RulesIn(vs)
            /\ Cardinality(RulesIn(vs)) > 10 => Len(top) = 10
            /\ \A a \in 1..Len(top) : top[a].count = RecordsOf(vs, top[a].rule)
            /\ \A a \in 1..(Len(top) - 1) : top[a].count >= top[a + 1].count
            /\ \A rule \in RulesIn(vs) \ Ranked(top) :
                 \A a \in 1..Len(top) : RecordsOf(vs, rule) <= top[a].count

\* a scan that found more than ten rules, some on one page and some on two:
\* the ranking is cut to ten, its first entry is not the first rule met, and a
\* rule found once is left out
C12_Witness ==
    /\ pc = "done"
    /\ Cardinality(RulesIn(summary.allViolations)) > 10
    /\ Len(summary.topIssues) = 10
    /\ summary.topIssues[1].count = 2
    /\ summary.topIssues[10].count = 1
    /\ summary.topIssues[1].rule # summary.allViolations[1].id

\* the outcomes recorded that are failures
FailedOutcomes == {k \in 1..Len(allResults) : IsFailure(allResults[k])}

\* C13: in the returned profile, pagesWithErrors is the number of page scans
\* that ended in an error, whatever the text of the error's message.
C13_FailureCountCountsEveryFailure ==
    Returned => summary.pagesWithErrors = Cardinality(FailedOutcomes)

\* C14: in the returned profile, pagesScanned is the number of pages scanned
\* without a failure, so that pagesScanned and pagesWithErrors add up to the
\* number of URLs of the filtered sequence.
C14_ScannedExcludesFailures ==
    Returned =>
        /\ summary.pagesScanned = Len(allResults) - Cardinality(FailedOutcomes)
        /\ summary.pagesScanned + summary.pagesWithErrors = Len(crawlResult.urls)

\* every page of the run failed
EveryPageFailed ==
    /\ Len(allResults) = Len(crawlResult.urls)
    /\ \A k \in 1..Len(allResults) : IsFailure(allResults[k])

\* C15: a run all of whose pages fail returns a profile with the four
\* severity counts and the total at zero, an empty ranking, an empty list of
\* violations and a failure count equal to the number of URLs, and every
\* grade rendered for it is Skip.
C15_AllFailedIsEmptySkip ==
    (Returned /\ EveryPageFailed) =>
        /\ summary.bySeverity = ZeroSeverity
        /\ summary.totalViolations = 0
        /\ summary.topIssues = <<>>
        /\ summary.allViolations = <<>>
        /\ summary.pagesWithErrors = Len(crawlResult.urls)
        /\ pc # "print" => console = AuditLabel.Skip
        /\ pc \in {"json", "done"} => files.summaryTxt = AuditLabel.Skip

\* the positions of the log at which a call op was made
Calls(op) == {e \in 1..Len(events) : events[e].op = op}

\* the positions of the log at which a call op was made for page p
CallsFor(op, p) == {e \in Calls(op) : events[e].page = p}

\* C16: a malformed URL or a browser session that fails to start (launch,
\* newPage or setViewport rejects) ends the run with exit status 1 before any
\* navigation: no outcome is recorded, no profile is returned, no grade is
\* printed and no file is written.  A failure of a page never leads there:
\* a run that has navigated ends with status 1 only when every URL has its
\* outcome and the call that closes the browser, the last of the run, was
\* rejected.
C16_InitFailureAbortsBeforeScan ==
    /\ ~ isValidUrl(baseUrl) => pc \in {"main", "exit1"}
    /\ pc \in {"raised", "exit1"} =>
        /\ summary = NoSummary
        /\ console = ""
        /\ files = NoFiles
        /\ \/ /\ Calls("close") = {}
              /\ Calls("setViewport") \subseteq {Len(events)}
              /\ Calls("goto") = {}
              /\ allResults = <<>>
              /\ result = NoResult
           \/ /\ Calls("close") = {Len(events)}
              /\ Len(allResults) = Len(crawlResult.urls)
              /\ browser = "open"

\* the sitemap was read and the browser then failed to start: exit status 1
C16_Witness ==
    /\ pc = "exit1"
    /\ isValidUrl(baseUrl)
    /\ crawlResult # NoCrawlResult
    /\ Calls("launch") = {1}
    /\ browser = "none"

\* C17: after the outcome of a page that is not the last, the next call is
\* the delay of 1000 ms, and the navigation to the next page comes right
\* after that delay; after the outcome of the last page there is no delay:
\* the next call closes the browser.
C17_DelayBetweenPages ==
    LET last == Len(crawlResult.urls) - 1
    IN  \A e \in 1..Len(events) :
          /\ (events[e].op = "record" /\ e < Len(events)) =>
                IF events[e].page < last
                THEN events[e + 1] = [op |-> "delay", page |-> events[e].page, ms |-> 1000]
                ELSE events[e + 1].op = "close"
          /\ (events[e].op = "record" /\ e = Len(events)) =>
                IF events[e].page < last THEN pc = "delay" ELSE pc = "loop"
          /\ (events[e].op = "goto" /\ events[e].page > 0) =>
                /\ e > 2
                /\ events[e - 1] = [op |-> "delay", page |-> events[e].page - 1, ms |-> 1000]
                /\ events[e - 2].op = "record"
          /\ events[e].op = "delay" => events[e].page < last

\* a finished run over two pages: one delay, between the two navigations
C17_Witness ==
    /\ pc = "done"
    /\ Len(crawlResult.urls) = 2
    /\ Cardinality(Calls("goto")) = 2
    /\ Cardinality(Calls("delay")) = 1

\* the scan of page p has begun
ScanBegun(p) == CallsFor("goto", p) # {}

\* the scan of page p is over: its outcome is recorded and, unless it is the
\* last page, the delay that follows it has elapsed
ScanOver(p) ==
    /\ CallsFor("record", p) # {}
    /\ p < Len(crawlResult.urls) - 1 => CallsFor("delay", p) # {}

\* the loop indices of the pages
PageIndices == 0..(Len(crawlResult.urls) - 1)

\* C18: the pages are scanned one at a time: when the navigation to a page
\* starts, the scan of every page before it is over (navigation, settle
\* delay, analysis, outcome and pacing delay), every call made for an
\* earlier page comes earlier in the run, and at most one page has a scan
\* begun whose outcome is not recorded yet.
C18_OnePageAtATime ==
    /\ \A p \in PageIndices, q \in PageIndices :
          (p < q /\ ScanBegun(q)) =>
              /\ ScanOver(p)
              /\ \A a \in 1..Len(events), b \in 1..Len(events) :
                    (events[a].page = p /\ events[b].page = q
                        /\ events[a].op # "launch") => a < b
    /\ Cardinality({p \in PageIndices : ScanBegun(p) /\ CallsFor("record", p) = {}}) <= 1
    /\ \A p \in PageIndices :
          /\ Cardinality(CallsFor("goto", p)) <= 1
          /\ Cardinality(CallsFor("settle", p)) <= 1
          /\ Cardinality(CallsFor("analyze", p)) <= 1
          /\ Cardinality(CallsFor("record", p)) <= 1
          /\ Cardinality(CallsFor("delay", p)) <= 1

\* the second page is being scanned, the first one is over
C18_Witness ==
    /\ pc = "analyze"
    /\ i = 1
    /\ ScanBegun(1)
    /\ ScanOver(0)
    /\ CallsFor("settle", 0) # {}

\* the order of the grades as the audit command writes them: Skip < C < B < A
GradeLevel(label) ==
    CASE label = "SKIP" -> 0
      [] label = "C-LEAD" -> 1
      [] label = "B-LEAD" -> 2
      [] label = "A-LEAD" -> 3

\* the profile s with critical raised by dc and serious by ds, all else fixed
Raised(s, dc, ds) ==
    [s EXCEPT !.bySeverity.critical = @ + dc, !.bySeverity.serious = @ + ds]

\* the grades were printed and written
Graded == pc = "json" \/ AfterAudit

\* C19: the grade printed and the grade written for a profile are never
\* above the grade the same renderer gives to that profile with its critical
\* and serious counts raised and every other field, the total included, kept.
C19_GradeNeverLoweredByRaise ==
    Graded =>
        \A dc \in 0..MaxSeverityCount, ds \in 0..MaxSeverityCount :
            /\ GradeLevel(printSummaryGrade(Raised(summary, dc, ds)))
                 >= GradeLevel(console)
            /\ GradeLevel(exportSummaryTextGrade(Raised(summary, dc, ds)))
                 >= GradeLevel(files.summaryTxt)

\* a profile graded C that a raise brings to B and a larger raise to A
C19_Witness ==
    /\ Graded
    /\ console = "C-LEAD"
    /\ files.summaryTxt = "C-LEAD"
    /\ printSummaryGrade(Raised(summary, 1, 0)) = "B-LEAD"
    /\ printSummaryGrade(Raised(summary, 3, 3)) = "A-LEAD"

\* the profiles that have the tally and the total of s and differ from it in
\* some of the other fields
SameTallyAndTotal(s) ==
    [domain : {s.domain, <<"z">>},
     pagesScanned : {s.pagesScanned, s.pagesScanned + 1},
     pagesWithErrors : {s.pagesWithErrors, s.pagesWithErrors + 1},
     totalViolations : {s.totalViolations},
     bySeverity : {s.bySeverity},
     topIssues : {s.topIssues, <<>>},
     allViolations : {s.allViolations, <<>>}]

\* C20: every profile with the tally and the total of the profile of the run
\* gets, from printSummary and from exportSummaryText, the grade that was
\* printed and written for the run, whatever its domain, page counts,
\* ranking and list of violations.
C20_GradeDependsOnTallyAndTotal ==
    Graded =>
        \A other \in SameTallyAndTotal(summary) :
            /\ printSummaryGrade(other) = console
            /\ exportSummaryTextGrade(other) = files.summaryTxt

\* a graded run with violations: its profile and a profile with the same
\* tally and total but no ranking and no list of violations
C20_Witness ==
    /\ Graded
    /\ console = "B-LEAD"
    /\ summary.totalViolations > 0
    /\ \E other \in SameTallyAndTotal(summary) :
          /\ other.allViolations = <<>>
          /\ other.topIssues = <<>>
          /\ other.domain # summary.domain

\* the orders in which n outcomes can be taken
Orders(n) ==
    {f \in [1..n -> 1..n] : \A a \in 1..n, b \in 1..n : f[a] = f[b] => a = b}

\* the outcomes rs taken in the order f
Permuted(rs, f) == [k \in 1..Len(rs) |-> rs[f[k]]]

\* what the loop of runFullAudit collects in allViolations from the outcomes
RECURSIVE ViolationsOf(_)
ViolationsOf(rs) ==
    IF rs = <<>> THEN <<>>
    ELSE CollectViolations(<<>>, Head(rs)) \o ViolationsOf(Tail(rs))

\* C21: the aggregate of the returned profile is the aggregate of the same
\* page outcomes taken in any other order: same severity counts, same total,
\* same failure count and same ranking (entries, order, severities and cut).
C21_AggregateIgnoresOrder ==
    Returned =>
        \A f \in Orders(Len(allResults)) :
            LET rs == Permuted(allResults, f)
                vs == ViolationsOf(rs)
            IN  /\ BySeverityOf(vs) = summary.bySeverity
                /\ TotalViolations(vs) = summary.totalViolations
                /\ PagesWithErrors(rs) = summary.pagesWithErrors
                /\ TopIssues(vs) = summary.topIssues

\* the text a failure outcome carries for a thrown value
ErrorTexts ==
    {IF thrown.isError THEN thrown.message ELSE "Unknown error" : thrown \in ThrownPool}

\* the outcome r is the failure outcome of the page at url
IsFailureOf(r, url) ==
    /\ r.url = url
    /\ r.violations = <<>>
    /\ r.error \in ErrorTexts

\* C22: for every page, analyze() is called right after the settle delay of
\* 2000 ms, which comes right after the navigation; an outcome that follows
\* the navigation directly is that of a failed navigation: no settle delay
\* and no analyze() were made for the page and the outcome is a failure
\* carrying the text of the error.
C22_ScanStepsInOrder ==
    \A p \in PageIndices :
        /\ \A a \in CallsFor("analyze", p) :
             /\ a > 2
             /\ events[a - 1] = [op |-> "settle", page |-> p, ms |-> 2000]
             /\ events[a - 2] = [op |-> "goto", page |-> p, ms |-> 0]
        /\ \A t \in CallsFor("settle", p) :
             /\ t > 1
             /\ events[t - 1] = [op |-> "goto", page |-> p, ms |-> 0]
        /\ \A r \in CallsFor("record", p) :
             /\ r > 1
             /\ events[r - 1].page = p
             /\ events[r - 1].op \in {"goto", "analyze"}
             /\ events[r - 1].op = "goto" =>
                  /\ CallsFor("settle", p) = {}
                  /\ CallsFor("analyze", p) = {}
                  /\ IsFailureOf(allResults[p + 1], crawlResult.urls[p + 1])
        /\ (pc = "record" /\ i = p /\ events[Len(events)].op = "goto") =>
             IsFailureOf(result, crawlResult.urls[p + 1])

\* a finished run of two pages: the navigation to the first failed, the
\* second was navigated to, left to settle and analyzed
C22_Witness ==
    /\ pc = "done"
    /\ Len(allResults) = 2
    /\ CallsFor("settle", 0) = {}
    /\ IsFailure(allResults[1])
    /\ CallsFor("analyze", 1) # {}
    /\ ~ IsFailure(allResults[2])

\* the calls that go through the page of the browser
PageCalls == Calls("goto") \cup Calls("settle") \cup Calls("analyze")

\* C23: a run launches the browser at most once, after the URLs were
\* discovered, and opens one page in it, before any navigation; every call on
\* the page is made while the browser is open; close is called at most once,
\* as the last call of the run, when every URL has its outcome and before
\* the profile is compiled, and no call is made on the browser afterwards.
C23_OneBrowserSession ==
    /\ Cardinality(Calls("launch")) <= 1
    /\ Cardinality(Calls("close")) <= 1
    /\ Calls("launch") # {} => (Calls("launch") = {1} /\ crawlResult # NoCrawlResult)
    /\ events # <<>> => Calls("launch") = {1}
    /\ Calls("newPage") \subseteq {2}
    /\ Calls("setViewport") \subseteq {3}
    /\ PageCalls # {} => (Calls("newPage") = {2} /\ Calls("setViewport") = {3})
    /\ browser = "open" => Calls("launch") # {}
    /\ browser = "closed" => Calls("close") # {}
    /\ (browser = "none" /\ Calls("launch") # {}) =>
          (pc \in {"raised", "exit1"} /\ Len(events) = 1)
    /\ (browser = "open" /\ Calls("close") # {}) => pc \in {"raised", "exit1"}
    /\ \A c \in Calls("close") :
         /\ c = Len(events)
         /\ \A e \in PageCalls : e < c
         /\ Len(allResults) = Len(crawlResult.urls)
         /\ Cardinality(Calls("record")) = Len(crawlResult.urls)
    /\ pc \in {"launched", "paged", "loop", "settle", "analyze", "record", "delay"} =>
          (browser = "open" /\ Calls("close") = {})
    /\ (summary # NoSummary \/ Returned) => browser = "closed"

\* a finished run of two pages: one launch, two navigations, one close
C23_Witness ==
    /\ pc = "done"
    /\ browser = "closed"
    /\ Cardinality(Calls("goto")) = 2
    /\ Cardinality(Calls("launch")) = 1
    /\ Cardinality(Calls("newPage")) = 1
    /\ Cardinality(Calls("close")) = 1

\* the probes of the sitemap resolver that went to the host of the site
ProbesOfSite ==
    {k \in 1..Len(probeLog) : UrlHost(probeLog[k].url) = UrlHost(baseUrl)}

\* C24 as stated: the page scan loop alone sends requests to the host of
\* the audited site; the sitemap resolver, the URL filter, the aggregation
\* and the grading send none.
C24_OnlyScanLoopRequests == ProbesOfSite = {}

\* C24, amended: the requests to the host of the audited site are the
\* probes of the sitemap resolver, up to four and all of them made before
\* the browser is launched, and the navigations of the page scan loop; the
\* URL filter, the aggregation, the grading and the renderers send none.
C24_RequestsByResolverAndLoop ==
    /\ [](/\ Len(probeLog) <= 4
          /\ ProbesOfSite = 1..Len(probeLog)
          /\ pc = "probe" => events = <<>>)
    /\ [][/\ probeLog' # probeLog => (pc = "probe" /\ pc' \in {"probe", "crawl_return"})
          /\ Cardinality(Calls("goto")') # Cardinality(Calls("goto")) =>
                (pc = "loop" /\ pc' \in {"settle", "record"})]_vars

\* a finished run: the resolver probed the site twice, the loop navigated
C24_Witness ==
    /\ pc = "done"
    /\ Cardinality(ProbesOfSite) = 2
    /\ Calls("goto") # {}

\* main is in one of the four renderers
Rendering == pc \in {"print", "csv", "summary_txt", "json"}

\* C25: a profile exists only once every URL has its outcome and the loop is
\* over, nothing is printed or written before it exists, it is the
\* aggregate of the recorded outcomes, and each of printSummary,
\* exportToCSV, exportSummaryText and exportToJSON leaves it, and the
\* outcomes it was built from, as they were.
C25_ProfileSealed ==
    /\ [](/\ summary # NoSummary =>
               /\ Returned
               /\ Len(allResults) = Len(crawlResult.urls)
               /\ Cardinality(Calls("record")) = Len(crawlResult.urls)
               /\ summary = CompileSummary(baseUrl, crawlResult, allResults,
                                           ViolationsOf(allResults))
          /\ (console # "" \/ files # NoFiles) => summary # NoSummary
          /\ "raw-results.json" \in files.written => files.rawResults = summary)
    /\ [][Rendering =>
            /\ summary' = summary
            /\ allResults' = allResults
            /\ allViolations' = allViolations]_vars

\* every renderer has run on the profile of a scan that found violations
C25_Witness ==
    /\ pc = "done"
    /\ summary.totalViolations > 0
    /\ Len(summary.topIssues) > 0
    /\ files.written = {"violations.csv", "summary.txt", "raw-results.json"}

\* the run is complete: every URL has its outcome, the browser is closed and
\* a profile was returned and graded
Completed ==
    /\ Len(allResults) = Len(crawlResult.urls)
    /\ browser = "closed"
    /\ summary # NoSummary
    /\ console # ""

\* C26 as stated: every run started with a well-formed URL is eventually
\* complete.
C26_WellFormedRunCompletes ==
    (pc = "main" /\ isValidUrl(baseUrl)) ~> Completed

\* every URL has its outcome and the call that closes the browser was made
Scanned ==
    /\ Len(allResults) = Len(crawlResult.urls)
    /\ Calls("close") # {}

\* C26, amended: every run started with a well-formed URL eventually has
\* its list of URLs; every run whose browser and page have started
\* eventually has an outcome for each URL and calls close; and every run
\* whose browser was closed is eventually complete.
C26_StartedRunCompletes ==
    /\ (pc = "main" /\ isValidUrl(baseUrl)) ~> (pc = "crawled")
    /\ (pc = "loop") ~> Scanned
    /\ (browser = "closed") ~> Completed

\* a complete run of two pages, the second of which failed
C26_Witness ==
    /\ pc = "done"
    /\ Completed
    /\ Len(allResults) = 2
    /\ IsFailure(allResults[2])
    /\ console = "C-LEAD"

\* the eleven suffixes of the deny-list
DeniedSuffixes ==
    { <<".","p","d","f">>, <<".","j","p","g">>, <<".","j","p","e","g">>,
      <<".","p","n","g">>, <<".","g","i","f">>, <<".","d","o","c">>,
      <<".","d","o","c","x">>, <<".","x","l","s">>, <<".","x","l","s","x">>,
      <<".","z","i","p">>, <<".","r","a","r">> }

\* u ends with the suffix, in any letter case
EndsWithAnyCase(u, suffix) ==
    /\ Len(suffix) <= Len(u)
    /\ \A k \in 1..Len(suffix) :
          u[Len(u) - Len(suffix) + k] \in {suffix[k], toUpperChar(suffix[k])}

\* u ends with a suffix of the deny-list, in any letter case
Denied(u) == \E suffix \in DeniedSuffixes : EndsWithAnyCase(u, suffix)

\* the positions of the discovered URLs that are not denied, up to position k
NotDeniedUpTo(k) == {j \in 1..k : ~ Denied(allUrls[j])}

\* C27: of the URLs a sitemap lists, those that end with one of the eleven
\* suffixes in any letter case are dropped, and every other one is kept (as
\* far as the page cap allows: the first maxPages of them).
C27_FilterIsDenyList ==
    pc = "crawled" =>
        /\ crawlResult.source = "sitemap"
        /\ \A k \in 1..Len(allUrls) :
              (\E m \in 1..Len(crawlResult.urls) : crawlResult.urls[m] = allUrls[k])
                <=> (\E j \in NotDeniedUpTo(Len(allUrls)) :
                        /\ allUrls[j] = allUrls[k]
                        /\ Cardinality(NotDeniedUpTo(j)) <= maxPages)

\* a sitemap listing a spreadsheet in upper case and a path that only has
\* the letters of a suffix: the first is dropped, the second kept
C27_Witness ==
    /\ pc = "crawled"
    /\ allUrls = << <<"/","f",".","X","L","S","X">>, <<"/","f","p","d","f">> >>
    /\ crawlResult.urls = << <<"/","f","p","d","f">> >>

\* a sitemap was found and every URL it lists is denied
AllDenied ==
    /\ allUrls # <<>>
    /\ \A k \in 1..Len(allUrls) : Denied(allUrls[k])

\* C28: the root URL is returned only when no probe gave a non-empty list.
\* When a sitemap was found and the deny-list drops every URL of it,
\* getUrlsFromSitemap returns no URL, tagged 'sitemap'; the run then
\* navigates to no page and records no outcome, and its profile has zero
\* pages, zero violations and the grade Skip.
C28_AllDeniedScansNothing ==
    /\ crawlResult.source = "fallback" =>
          /\ allUrls = <<>>
          /\ \A k \in 1..Len(probeLog) : ~ SitesFound(probeLog[k].resp)
    /\ (AllDenied /\ crawlResult # NoCrawlResult) =>
          /\ crawlResult.urls = <<>>
          /\ crawlResult.source = "sitemap"
          /\ PageCalls = {}
          /\ allResults = <<>>
          /\ Returned =>
                /\ summary.pagesScanned = 0
                /\ summary.pagesWithErrors = 0
                /\ summary.totalViolations = 0
                /\ summary.bySeverity = ZeroSeverity
                /\ summary.topIssues = <<>>
                /\ pc # "print" => console = AuditLabel.Skip
                /\ pc \in {"json", "done"} => files.summaryTxt = AuditLabel.Skip

\* a finished run on a sitemap that lists one PDF: the browser was launched
\* and closed, no page was navigated to
C28_Witness ==
    /\ pc = "done"
    /\ allUrls = <<DocPdf>>
    /\ crawlResult.urls = <<>>
    /\ events = <<[op |-> "launch", page |-> 0, ms |-> 0],
                  [op |-> "newPage", page |-> 0, ms |-> 0],
                  [op |-> "setViewport", page |-> 0, ms |-> 0],
                  [op |-> "close", page |-> 0, ms |-> 0]>>
    /\ console = "SKIP"

\* the rules of a ranking with their counts
RuleCounts(top) == {[rule |-> top[a].rule, count |-> top[a].count] : a \in 1..Len(top)}

\* a violation record of the audit as the record runScan keeps of it
AsScanViolation(v) ==
    [id |-> v.id, impact |-> v.impact, nodes |-> v.nodeCount, pageUrl |-> v.pageUrl]

\* the violation records of the profile as runScan keeps them
ScanViolations ==
    [k \in 1..Len(summary.allViolations) |-> AsScanViolation(summary.allViolations[k])]

\* C29: from the violation records of the run, runScan's aggregation gives
\* the severity counts, the total and the per-rule counts of the ranking
\* that runFullAudit returned in its profile.
C29_PipelinesAggregateAlike ==
    Returned =>
        /\ runScanBySeverity(ScanViolations) = summary.bySeverity
        /\ runScanTotalViolations(runScanBySeverity(ScanViolations))
             = summary.totalViolations
        /\ RuleCounts(runScanTopIssues(ScanViolations))
             = RuleCounts(summary.topIssues)

====
